---- MODULE Spec2Model ----
(***************************************************************************)
(* The rope tree core of ropey: Node (src/src/node.rs), ChildArray         *)
(* (src/src/child_array.rs) and RopeSlice (src/src/slice.rs).              *)
(*                                                                         *)
(* Text is a sequence of UTF-8 bytes.  A byte is one of                    *)
(*   "a"  an ASCII letter            "n"  LF            "r"  CR            *)
(*   "M"  the lead byte of a two-byte combining mark (Extend)              *)
(*   "c"  a UTF-8 continuation byte                                        *)
(* Nodes live in a heap of reference-counted cells (Arc<Node>).  Indices   *)
(* into arrays are 1-based here and 0-based in the source.                 *)
(***************************************************************************)
EXTENDS Integers, Sequences, FiniteSets, TLC

\* ------------------------------------------------------------------------
\* Program constants
MAX_CHILDREN == 16
MIN_CHILDREN == MAX_CHILDREN \div 2
MAX_BYTES == 334
MIN_BYTES == MAX_BYTES \div 2
MAX_LEN == MAX_CHILDREN

\* ------------------------------------------------------------------------
\* Bounds of the exploration
MaxBulk == 17
MaxFree == 1
MaxForks == 1
MaxMerges == 1
MaxBeyond == 1
MaxExtras == 2

None == -1

\* ------------------------------------------------------------------------
\* Strings

Min(S) == CHOOSE x \in S : \A y \in S : x <= y
Max(S) == CHOOSE x \in S : \A y \in S : y <= x

Take(t, n) == SubSeq(t, 1, n)
Drop(t, n) == SubSeq(t, n + 1, Len(t))

\* str::is_char_boundary
is_char_boundary(t, p) ==
    p = 0 \/ p = Len(t) \/ (p > 0 /\ p < Len(t) /\ t[p + 1] # "c")

\* Byte offsets (0-based) at which a scalar value starts, in order.
LeadOffsets(t) ==
    SelectSeq([i \in 1..Len(t) |-> i - 1], LAMBDA p : t[p + 1] # "c")

CharCount(t) == Len(LeadOffsets(t))

\* Line breaks: LF, CR not followed by LF; CRLF counts once.
LineBreaks(t) ==
    Cardinality({i \in 1..Len(t) :
        \/ t[i] = "n"
        \/ (t[i] = "r" /\ (i = Len(t) \/ t[i + 1] # "n"))})

\* The first byte of the scalar value that ends at byte offset p (p > 0).
LeadBefore(t, p) ==
    IF t[p] # "c" THEN t[p]
    ELSE IF p > 1 /\ t[p - 1] # "c" THEN t[p - 1]
    ELSE "c"

\* Extended grapheme cluster rule between two adjacent scalar values:
\* no break inside CR LF, no break before Extend unless a control precedes.
NoBreakBetween(x, y) ==
    \/ (x = "r" /\ y = "n")
    \/ (y = "M" /\ x \notin {"r", "n"})

\* Whether byte offset p of t is an extended grapheme cluster boundary.
IsGraphemeBoundaryByte(t, p) ==
    \/ p = 0
    \/ p = Len(t)
    \/ /\ p > 0 /\ p < Len(t)
       /\ t[p + 1] # "c"
       /\ ~NoBreakBetween(LeadBefore(t, p), t[p + 1])

TextInfoNew == [bytes |-> 0, chars |-> 0, line_breaks |-> 0]

TextInfoFromStr(t) ==
    [bytes |-> Len(t), chars |-> CharCount(t), line_breaks |-> LineBreaks(t)]

Combine(a, b) ==
    [bytes |-> a.bytes + b.bytes, chars |-> a.chars + b.chars,
     line_breaks |-> a.line_breaks + b.line_breaks]

\* small_string_utils::char_pos_to_byte_pos
char_pos_to_byte_pos(t, pos) ==
    LET lo == LeadOffsets(t)
    IN IF pos < Len(lo) THEN lo[pos + 1] ELSE Len(t)

\* SmallString::insert_str
insert_str(cur, byte_pos, text) ==
    Take(cur, byte_pos) \o text \o Drop(cur, byte_pos)

\* small_string_utils::split_string_near_byte: the split is at the largest
\* scalar boundary at or below pos; [left, right]
RECURSIVE ScalarBoundaryBelow(_, _)
ScalarBoundaryBelow(t, pos) ==
    IF is_char_boundary(t, pos) THEN pos ELSE ScalarBoundaryBelow(t, pos - 1)

split_string_near_byte(t, pos) ==
    LET sp == ScalarBoundaryBelow(t, pos)
    IN [left |-> Take(t, sp), right |-> Drop(t, sp)]

\* small_string_utils::fix_grapheme_seam on two strings: the cluster that
\* spans the seam is moved into the left string.
RECURSIVE GraphemeBoundaryAbove(_, _)
GraphemeBoundaryAbove(t, pos) ==
    IF IsGraphemeBoundaryByte(t, pos) THEN pos ELSE GraphemeBoundaryAbove(t, pos + 1)

FixSeamStrings(l, r) ==
    IF Len(l) = 0 \/ Len(r) = 0 THEN [left |-> l, right |-> r]
    ELSE LET t == l \o r
             nxt == GraphemeBoundaryAbove(t, Len(l))
         IN [left |-> Take(t, nxt), right |-> Drop(t, nxt)]

\* ------------------------------------------------------------------------
\* Nodes and the heap of Arc<Node> cells

EmptyNode == [kind |-> "Empty", text |-> <<>>, info |-> <<>>, children |-> <<>>]
LeafNode(t) == [kind |-> "Leaf", text |-> t, info |-> <<>>, children |-> <<>>]
InternalNode(inf, ch) ==
    [kind |-> "Internal", text |-> <<>>, info |-> inf, children |-> ch]
\* Option<Node>::None, and the contents of a released cell
NoNode == [kind |-> "None", text |-> <<>>, info |-> <<>>, children |-> <<>>]

\* ArrayVec operations (0-based index, as in the source)
av_insert(s, idx, x) == Take(s, idx) \o <<x>> \o Drop(s, idx)
av_remove(s, idx) == Take(s, idx) \o Drop(s, idx + 1)
av_pop(s) == Take(s, Len(s) - 1)

RECURSIVE CombineAll(_)
CombineAll(inf) ==
    IF Len(inf) = 0 THEN TextInfoNew
    ELSE Combine(CombineAll(av_pop(inf)), inf[Len(inf)])

\* Node::text_info
text_info(node) ==
    CASE node.kind = "Leaf" -> TextInfoFromStr(node.text)
      [] node.kind = "Internal" -> CombineAll(node.info)
      [] OTHER -> TextInfoNew

\* search_combine with the predicate |inf| key <= inf.field: the first
\* 0-based index whose accumulated info satisfies the predicate, and the info
\* accumulated before it; found = FALSE is the panic "Predicate is
\* mal-formed and never evaluated true."
RECURSIVE SearchFrom(_, _, _, _, _)
SearchFrom(inf, field, key, idx, accum) ==
    IF idx >= Len(inf) THEN [found |-> FALSE, idx |-> 0, acc |-> TextInfoNew]
    ELSE IF key <= Combine(accum, inf[idx + 1])[field]
    THEN [found |-> TRUE, idx |-> idx, acc |-> accum]
    ELSE SearchFrom(inf, field, key, idx + 1, Combine(accum, inf[idx + 1]))

search_combine(inf, field, key) == SearchFrom(inf, field, key, 0, TextInfoNew)

SetNode(h, id, node) == [h EXCEPT ![id].node = node]

\* Arc::new
ArcNew(h, node) ==
    [h |-> Append(h, [node |-> node, rc |-> 1]), id |-> Len(h) + 1]

\* Arc::clone on every handle in an array of children
CloneHandles(h, ch) ==
    [i \in DOMAIN h |->
        [h[i] EXCEPT !.rc = @ + Cardinality({k \in DOMAIN ch : ch[k] = i})]]

\* Arc::clone
ArcClone(h, id) == [h EXCEPT ![id].rc = @ + 1]

\* A make_mut that never copies: the node is mutated through a shared handle.
MakeMutInPlace(h, id) == [h |-> h, id |-> id]

\* Arc::make_mut: in place when the handle is unique, otherwise the node is
\* cloned (its children stay shared) and the handle moves to the copy.
make_mut(h, id) ==
    IF h[id].rc = 1 THEN [h |-> h, id |-> id]
    ELSE ArcNew(CloneHandles([h EXCEPT ![id].rc = @ - 1], h[id].node.children),
                h[id].node)

\* Drop of an Arc<Node>: the node is released with its last handle, which
\* drops its children in turn.
RECURSIVE DropAll(_, _)
ArcDrop(h, id) ==
    IF h[id].rc > 1 THEN [h EXCEPT ![id].rc = @ - 1]
    ELSE DropAll([h EXCEPT ![id] = [node |-> NoNode, rc |-> 0]],
                 h[id].node.children)
DropAll(h, ch) ==
    IF Len(ch) = 0 THEN h ELSE DropAll(ArcDrop(h, ch[1]), Drop(ch, 1))

\* ------------------------------------------------------------------------
\* Node::insert

\* The result of Node::insert: the heap, the residual, the seam; and for the
\* record the branches taken (br) and the sizes of the halves of every
\* internal split (split).
InsertResult(h, residual, seam, br, split) ==
    [h |-> h, residual |-> residual, seam |-> seam, panic |-> FALSE,
     br |-> br, split |-> split]
InsertPanic(h) ==
    [h |-> h, residual |-> NoNode, seam |-> None, panic |-> TRUE,
     br |-> {"panic"}, split |-> {}]

\* A seam that is always reported at the end of the inserted text.
LeafSeamAfterText(cur, byte_pos, text) == byte_pos + Len(text)

\* The byte position of a possible grapheme seam after a leaf insertion.
LeafSeam(cur, byte_pos, text) ==
    IF byte_pos = 0 THEN 0
    ELSE IF byte_pos = Len(cur) THEN Len(cur) + Len(text)
    ELSE None

LeafSplitPos(len) == len - (len \div 2)

\* A leaf that splits in place instead of returning a residual.
LeafInsertInPlace(h, id, char_pos, text) ==
    LET cur == h[id].node.text
        byte_pos == char_pos_to_byte_pos(cur, char_pos)
        seam == LeafSeam(cur, byte_pos, text)
        new == insert_str(cur, byte_pos, text)
    IN IF Len(new) <= MAX_BYTES
       THEN InsertResult(SetNode(h, id, LeafNode(new)), NoNode, seam, {"leaf_fit"}, {})
       ELSE LET sp == split_string_near_byte(new, LeafSplitPos(Len(new)))
                a == ArcNew(h, LeafNode(sp.left))
                b == ArcNew(a.h, LeafNode(sp.right))
            IN InsertResult(
                   SetNode(b.h, id,
                       InternalNode(<<TextInfoFromStr(sp.left), TextInfoFromStr(sp.right)>>,
                                    <<a.id, b.id>>)),
                   NoNode, seam, {"leaf_split"}, {})

LeafInsert(h, id, char_pos, text) ==
    LET cur == h[id].node.text
        byte_pos == char_pos_to_byte_pos(cur, char_pos)
        seam == LeafSeam(cur, byte_pos, text)
        new == insert_str(cur, byte_pos, text)
    IN IF Len(new) <= MAX_BYTES
       THEN InsertResult(SetNode(h, id, LeafNode(new)), NoNode, seam, {"leaf_fit"}, {})
       ELSE LET sp == split_string_near_byte(new, LeafSplitPos(Len(new)))
            IN IF Len(sp.right) > 0
               THEN InsertResult(SetNode(h, id, LeafNode(sp.left)),
                                 LeafNode(sp.right), seam, {"leaf_split"}, {})
               ELSE InsertResult(SetNode(h, id, LeafNode(new)), NoNode, seam,
                                 {"leaf_oversized"}, {})

\* The residual put in front of the child it came from.
ResidualIndexBefore(child_i) == child_i

\* Where the residual of child child_i goes in the parent.
ResidualIndex(child_i) == child_i + 1

\* An info slot that forgets the line breaks of the child.
ChildInfoNoLines(h, child) == [text_info(h[child].node) EXCEPT !.line_breaks = 0]

\* The info slot of the child after the recursive insert.
ChildInfoAfter(h, child) == text_info(h[child].node)

SeamInParent(child_seam, start_info) ==
    IF child_seam = None THEN None ELSE child_seam + start_info.bytes

\* A split that leaves a quarter of the children on the right.
SplitRCountQuarter(len) == (len + 1) \div 4

SplitRCount(len) == (len + 1) \div 2
SplitLCount(len) == (len + 1) - SplitRCount(len)

\* for _ in l_count..children.len() { r.push(l.remove(l_count)) }
RECURSIVE MoveTail(_, _, _, _)
MoveTail(l, r, l_count, n) ==
    IF n <= 0 THEN [l |-> l, r |-> r]
    ELSE MoveTail(av_remove(l, l_count), Append(r, l[l_count + 1]), l_count, n - 1)

RECURSIVE NodeInsert(_, _, _, _)

\* The new node won't fit: the node splits and returns its right half.
InternalSplit(h, id, child_i, info1, children1, r_info, r_child, seam, br, split) ==
    LET popped == child_i < Len(children1) - 1
        extra_info == IF popped THEN info1[Len(info1)] ELSE r_info
        extra_child == IF popped THEN children1[Len(children1)] ELSE r_child
        info2 == IF popped
                 THEN av_insert(av_pop(info1), ResidualIndex(child_i), r_info)
                 ELSE info1
        children2 == IF popped
                     THEN av_insert(av_pop(children1), ResidualIndex(child_i), r_child)
                     ELSE children1
        l_count == SplitLCount(Len(children2))
        mi == MoveTail(info2, <<>>, l_count, Len(info2) - l_count)
        mc == MoveTail(children2, <<>>, l_count, Len(children2) - l_count)
    IN InsertResult(
           SetNode(h, id, InternalNode(mi.l, mc.l)),
           InternalNode(Append(mi.r, extra_info), Append(mc.r, extra_child)),
           seam,
           br \cup {IF popped THEN "split_popped" ELSE "split_last"},
           split \cup {<<Len(mc.l), Len(mc.r) + 1>>})

\* Handle the new node, if any.  r is the result of the insert into child
\* child_i, info1 the info array with the slot of that child refreshed.
InternalResidual(id, child_i, info1, children1, r, seam) ==
    IF r.residual = NoNode
    THEN InsertResult(SetNode(r.h, id, InternalNode(info1, children1)),
                      NoNode, seam, r.br, r.split)
    ELSE LET a == ArcNew(r.h, r.residual)
         IN IF Len(children1) < MAX_CHILDREN
            THEN InsertResult(
                   SetNode(a.h, id,
                       InternalNode(
                           av_insert(info1, ResidualIndex(child_i), text_info(r.residual)),
                           av_insert(children1, ResidualIndex(child_i), a.id))),
                   NoNode, seam, r.br \cup {"residual_fit"}, r.split)
            ELSE InternalSplit(a.h, id, child_i, info1, children1,
                               text_info(r.residual), a.id, seam, r.br, r.split)

\* After the insert into the child: refresh its info slot, move the seam
\* into this node's coordinates.
InternalChild(id, child_i, start_info, child, r) ==
    IF r.panic THEN InsertPanic(r.h)
    ELSE InternalResidual(id, child_i,
             [r.h[id].node.info EXCEPT ![child_i + 1] = ChildInfoAfter(r.h, child)],
             r.h[id].node.children, r, SeamInParent(r.seam, start_info))

\* Navigate into child child_i through a unique handle.
InternalDescend(h, id, child_i, start_info, char_pos, text) ==
    LET mm == make_mut(h, h[id].node.children[child_i + 1])
        h1 == SetNode(mm.h, id,
                  InternalNode(h[id].node.info,
                               [h[id].node.children EXCEPT ![child_i + 1] = mm.id]))
    IN InternalChild(id, child_i, start_info, mm.id,
                     NodeInsert(h1, mm.id, char_pos - start_info.chars, text))

InternalInsert(h, id, char_pos, text) ==
    LET sc == search_combine(h[id].node.info, "chars", char_pos)
    IN IF ~sc.found THEN InsertPanic(h)
       ELSE InternalDescend(h, id, sc.idx, sc.acc, char_pos, text)

NodeInsert(h, id, char_pos, text) ==
    CASE h[id].node.kind = "Empty" ->
            InsertResult(SetNode(h, id, LeafNode(text)), NoNode, None, {"empty"}, {})
      [] h[id].node.kind = "Leaf" -> LeafInsert(h, id, char_pos, text)
      [] OTHER -> InternalInsert(h, id, char_pos, text)

\* ------------------------------------------------------------------------
\* Node::fix_info_left / Node::fix_info_right

RECURSIVE fix_info_left(_, _)
fix_info_left(h, id) ==
    IF h[id].node.kind # "Internal" THEN h
    ELSE LET n == h[id].node
             mm == make_mut(h, n.children[1])
             children1 == [n.children EXCEPT ![1] = mm.id]
             h1 == fix_info_left(SetNode(mm.h, id, InternalNode(n.info, children1)), mm.id)
         IN SetNode(h1, id,
                InternalNode([n.info EXCEPT ![1] = text_info(h1[mm.id].node)], children1))

RECURSIVE fix_info_right(_, _)
fix_info_right(h, id) ==
    IF h[id].node.kind # "Internal" THEN h
    ELSE LET n == h[id].node
             last == Len(n.children)
             mm == make_mut(h, n.children[last])
             children1 == [n.children EXCEPT ![last] = mm.id]
             h1 == fix_info_right(SetNode(mm.h, id, InternalNode(n.info, children1)), mm.id)
         IN SetNode(h1, id,
                InternalNode([n.info EXCEPT ![last] = text_info(h1[mm.id].node)], children1))

\* ------------------------------------------------------------------------
\* Node::fix_grapheme_seam.  leaf is the cell of the returned text (0 for
\* None); fixed tells that the two-string repair ran.

SeamResult(h, leaf, fixed) == [h |-> h, leaf |-> leaf, panic |-> FALSE, fixed |-> fixed]
SeamPanic(h) == [h |-> h, leaf |-> 0, panic |-> TRUE, fixed |-> FALSE]

\* The info slots of the two children that meet at the seam, after repair.
SeamInfoAfter(h, child) == text_info(h[child].node)

RECURSIVE fix_grapheme_seam(_, _, _)

\* Descend into child number k (1-based) through a unique handle.
SeamDescend(h, id, k, byte_pos) ==
    LET n == h[id].node
        mm == make_mut(h, n.children[k])
        h1 == SetNode(mm.h, id,
                  InternalNode(n.info, [n.children EXCEPT ![k] = mm.id]))
    IN fix_grapheme_seam(h1, mm.id, byte_pos)

\* The two leaves at the seam are repaired, the info on the way down to
\* them and the two slots of this node are refreshed.
SeamRepair(h, id, child_l_i, leaf_l, leaf_r, fx) ==
    LET n == h[id].node
        h2 == SetNode(SetNode(h, leaf_l, LeafNode(fx.left)), leaf_r, LeafNode(fx.right))
        h3 == fix_info_left(fix_info_right(h2, n.children[child_l_i + 1]),
                            n.children[child_l_i + 2])
    IN SeamResult(
           SetNode(h3, id,
               InternalNode(
                   [h3[id].node.info EXCEPT
                       ![child_l_i + 1] = SeamInfoAfter(h3, h3[id].node.children[child_l_i + 1]),
                       ![child_l_i + 2] = SeamInfoAfter(h3, h3[id].node.children[child_l_i + 2])],
                   h3[id].node.children)),
           0, TRUE)

\* fr: the leaf at the left edge of the right child.
SeamRight(id, child_l_i, leaf_l, fr) ==
    IF fr.panic \/ fr.leaf = 0 THEN SeamPanic(fr.h)
    ELSE SeamRepair(fr.h, id, child_l_i, leaf_l, fr.leaf,
                    FixSeamStrings(fr.h[leaf_l].node.text, fr.h[fr.leaf].node.text))

\* fl: the leaf at the right edge of the left child.
SeamLeft(id, child_l_i, fl) ==
    IF fl.panic \/ fl.leaf = 0 THEN SeamPanic(fl.h)
    ELSE SeamRight(id, child_l_i, fl.leaf,
                   fix_grapheme_seam(fl.h, fl.h[id].node.children[child_l_i + 2], 0))

\* The seam lies between children child_l_i and child_l_i + 1 (0-based).
SeamSiblings(h, id, child_l_i) ==
    LET n == h[id].node
        ml == make_mut(h, n.children[child_l_i + 1])
        mr == make_mut(ml.h, n.children[child_l_i + 2])
        h1 == SetNode(mr.h, id,
                  InternalNode(n.info, [n.children EXCEPT ![child_l_i + 1] = ml.id,
                                                          ![child_l_i + 2] = mr.id]))
    IN SeamLeft(id, child_l_i,
                fix_grapheme_seam(h1, ml.id, n.info[child_l_i + 1].bytes))

fix_grapheme_seam(h, id, byte_pos) ==
    LET n == h[id].node
    IN CASE n.kind = "Empty" -> SeamResult(h, 0, FALSE)
         [] n.kind = "Leaf" ->
                IF byte_pos = 0 \/ byte_pos = Len(n.text)
                THEN SeamResult(h, id, FALSE)
                ELSE SeamPanic(h)
         [] OTHER ->
                IF byte_pos = 0 THEN SeamDescend(h, id, 1, byte_pos)
                ELSE IF byte_pos = CombineAll(n.info).bytes
                THEN SeamDescend(h, id, Len(n.children), n.info[Len(n.info)].bytes)
                ELSE
                LET sc == search_combine(n.info, "bytes", byte_pos)
                    child_i == sc.idx
                    pos_in_child == byte_pos - sc.acc.bytes
                    child_len == n.info[child_i + 1].bytes
                IN IF ~sc.found THEN SeamPanic(h)
                   ELSE IF pos_in_child = 0 \/ pos_in_child = child_len
                   THEN LET child_l_i == IF pos_in_child = 0 THEN child_i - 1 ELSE child_i
                        IN IF child_l_i < 0 \/ child_l_i + 2 > Len(n.children)
                           THEN SeamPanic(h)
                           ELSE SeamSiblings(h, id, child_l_i)
                   ELSE SeamDescend(h, id, child_i + 1, pos_in_child)

\* ------------------------------------------------------------------------
\* ChildArray::merge_distribute on the child array of the internal node in
\* cell id

MergeResult(h, merged) == [h |-> h, merged |-> merged, panic |-> FALSE]
MergePanic(h) == [h |-> h, merged |-> FALSE, panic |-> TRUE]

\* Whether a grapheme boundary strictly inside t lies at byte p.
InteriorBoundary(t, p) == p > 0 /\ p < Len(t) /\ IsGraphemeBoundaryByte(t, p)

\* The distances from pos at which t has an interior grapheme boundary.
BoundaryDistances(t, pos) ==
    {d \in 0..Len(t) : InteriorBoundary(t, pos - d) \/ InteriorBoundary(t, pos + d)}

\* The boundary at the least of the distances ds, the one below pos first;
\* Len(t) when there is none.
NearestBoundary(t, pos, ds) ==
    IF ds = {} THEN Len(t)
    ELSE IF InteriorBoundary(t, pos - Min(ds)) THEN pos - Min(ds)
    ELSE pos + Min(ds)

\* str_utils::nearest_internal_grapheme_boundary: the grapheme boundary
\* strictly inside t that is nearest to pos; Len(t) when there is none.
nearest_internal_grapheme_boundary(t, pos) ==
    NearestBoundary(t, pos, BoundaryDistances(t, pos))

MergeSplitPos(len) == len - (len \div 2)

\* A split that keeps both leaves whatever the right one holds.
MergeSplitLeavesKeepBoth(h, n1, n2, text1, split_pos) ==
    [h |-> SetNode(SetNode(h, n1, LeafNode(Take(text1, split_pos))),
                   n2, LeafNode(Drop(text1, split_pos))),
     remove_right |-> FALSE]

\* text1 is text1 with text2 pushed onto it, too long for one leaf.
MergeSplitLeaves(h, n1, n2, text1, split_pos) ==
    [h |-> SetNode(SetNode(h, n1, LeafNode(Take(text1, split_pos))),
                   n2, LeafNode(Drop(text1, split_pos))),
     remove_right |-> Len(text1) - split_pos = 0]

\* Both siblings are leaves; text1 is text1 with text2 pushed onto it.
MergeLeaves(h, n1, n2, text1) ==
    IF Len(text1) <= MAX_BYTES
    THEN [h |-> SetNode(h, n1, LeafNode(text1)), remove_right |-> TRUE]
    ELSE MergeSplitLeaves(h, n1, n2, text1,
             nearest_internal_grapheme_boundary(text1, MergeSplitPos(Len(text1))))

\* A distribution that fills the right node from the wrong end: the right
\* node's own children come first.
DistributeSwapped(l, r, target) ==
    [l |-> Take(r \o l, Len(l) + Len(r) - target),
     r |-> Drop(r \o l, Len(l) + Len(r) - target)]

\* while r.len() < target { r.insert(0, l.pop()) }
\* while r.len() > target { l.push(r.remove(0)) }
RECURSIVE Distribute(_, _, _)
Distribute(l, r, target) ==
    IF Len(r) < target THEN Distribute(av_pop(l), av_insert(r, 0, l[Len(l)]), target)
    ELSE IF Len(r) > target THEN Distribute(Append(l, r[1]), av_remove(r, 0), target)
    ELSE [l |-> l, r |-> r]

\* Both siblings are internal nodes c1 and c2.
MergeInternals(h, n1, n2, c1, c2) ==
    IF Len(c1.children) + Len(c2.children) < MAX_LEN
    THEN [h |-> SetNode(SetNode(h, n1, InternalNode(c1.info \o c2.info,
                                                    c1.children \o c2.children)),
                        n2, InternalNode(<<>>, <<>>)),
          remove_right |-> TRUE]
    ELSE LET r_target_len == (Len(c1.children) + Len(c2.children)) \div 2
             di == Distribute(c1.info, c2.info, r_target_len)
             dc == Distribute(c1.children, c2.children, r_target_len)
         IN [h |-> SetNode(SetNode(h, n1, InternalNode(di.l, dc.l)),
                           n2, InternalNode(di.r, dc.r)),
             remove_right |-> FALSE]

\* The info slot of a child after the merge or distribution.
MergeInfoAfter(h, child) == text_info(h[child].node)

\* The end of merge_distribute: the right sibling is removed and released
\* after a merge, and the info slots are refreshed.
MergeFinish(id, idx1, idx2, m) ==
    IF m.remove_right
    THEN LET n == m.h[id].node
             h1 == ArcDrop(SetNode(m.h, id,
                               InternalNode(av_remove(n.info, idx2),
                                            av_remove(n.children, idx2))),
                           n.children[idx2 + 1])
         IN MergeResult(
                SetNode(h1, id,
                    InternalNode(
                        [h1[id].node.info EXCEPT
                            ![idx1 + 1] = MergeInfoAfter(h1, n.children[idx1 + 1])],
                        h1[id].node.children)),
                TRUE)
    ELSE LET n == m.h[id].node
         IN MergeResult(
                SetNode(m.h, id,
                    InternalNode(
                        [n.info EXCEPT
                            ![idx1 + 1] = MergeInfoAfter(m.h, n.children[idx1 + 1]),
                            ![idx2 + 1] = MergeInfoAfter(m.h, n.children[idx2 + 1])],
                        n.children)),
                FALSE)

\* match node1 { Leaf => ..., Internal => ... } on the two unique siblings
MergeNodes(h, id, idx1, idx2, n1, n2) ==
    IF h[n1].node.kind = "Leaf" /\ h[n2].node.kind = "Leaf"
    THEN MergeFinish(id, idx1, idx2,
             MergeLeaves(h, n1, n2, h[n1].node.text \o h[n2].node.text))
    ELSE IF h[n1].node.kind = "Internal" /\ h[n2].node.kind = "Internal"
    THEN MergeFinish(id, idx1, idx2,
             MergeInternals(h, n1, n2, h[n1].node, h[n2].node))
    ELSE MergePanic(h)

merge_distribute(h, id, idx1, idx2) ==
    IF ~(idx1 < idx2 /\ idx2 < Len(h[id].node.children)) THEN MergePanic(h)
    ELSE LET n == h[id].node
             m1 == make_mut(h, n.children[idx1 + 1])
             m2 == make_mut(m1.h, n.children[idx2 + 1])
         IN MergeNodes(
                SetNode(m2.h, id,
                    InternalNode(n.info, [n.children EXCEPT ![idx1 + 1] = m1.id,
                                                            ![idx2 + 1] = m2.id])),
                id, idx1, idx2, m1.id, m2.id)

\* ------------------------------------------------------------------------
\* Observations of a tree

RECURSIVE Content(_, _)
RECURSIVE ContentOf(_, _)
\* The left-to-right concatenation of the leaf texts below cell id.
Content(h, id) ==
    IF h[id].node.kind = "Internal" THEN ContentOf(h, h[id].node.children)
    ELSE h[id].node.text
ContentOf(h, ch) ==
    IF Len(ch) = 0 THEN <<>> ELSE ContentOf(h, av_pop(ch)) \o Content(h, ch[Len(ch)])

RECURSIVE Leaves(_, _)
RECURSIVE LeavesOf(_, _)
\* The leaf cells below cell id, left to right.
Leaves(h, id) ==
    IF h[id].node.kind = "Internal" THEN LeavesOf(h, h[id].node.children)
    ELSE IF h[id].node.kind = "Leaf" THEN <<id>> ELSE <<>>
LeavesOf(h, ch) ==
    IF Len(ch) = 0 THEN <<>> ELSE LeavesOf(h, av_pop(ch)) \o Leaves(h, ch[Len(ch)])

RECURSIVE Tree(_, _)
\* The tree below cell id as a value: texts, info slots and shape, without
\* the identity of the cells.
Tree(h, id) ==
    [kind |-> h[id].node.kind, text |-> h[id].node.text, info |-> h[id].node.info,
     children |-> [k \in DOMAIN h[id].node.children |-> Tree(h, h[id].node.children[k])]]

RECURSIVE Nodes(_, _)
\* The cells reachable from cell id.
Nodes(h, id) ==
    {id} \cup UNION {Nodes(h, h[id].node.children[k]) : k \in DOMAIN h[id].node.children}

RECURSIVE Depths(_, _)
\* The depths at which leaves occur below cell id.
Depths(h, id) ==
    IF h[id].node.kind # "Internal" THEN {0}
    ELSE {d + 1 : d \in UNION {Depths(h, h[id].node.children[k]) :
                                 k \in DOMAIN h[id].node.children}}

\* ------------------------------------------------------------------------
\* Inputs

Rep(x, k) == [i \in 1..k |-> x]

\* A chunk of 300 bytes: LF, letters, a CR LF pair, letters, and a letter
\* with a combining mark at the end.
Bulk ==
    <<"n">> \o Rep("a", 100) \o <<"r", "n">> \o Rep("a", 194) \o <<"a", "M", "c">>

BulkChars == CharCount(Bulk)

FreeTexts == {<<"a">>, <<"r">>, <<"M", "c">>, Bulk, Bulk \o Bulk}

FreePositions(n) == {0, 1, BulkChars, BulkChars + 100, n - 1, n} \cap (0..n)

\* ------------------------------------------------------------------------
\* The rope: a root handle, and the insertion done by its owner.

VARIABLES heap, root, pc, seam, doc, last, seen, nBulk, nFree, nBeyond, nMerge,
          forks, view, status, arrays, held, nArr

vars == <<heap, root, pc, seam, doc, last, seen, nBulk, nFree, nBeyond, nMerge,
          forks, view, status, arrays, held, nArr>>

\* No RopeSlice, and no slices borrowed from the rope.
NoSlice ==
    [node |-> 0, start_byte |-> 0, end_byte |-> 0, start_char |-> 0, end_char |-> 0,
     start_line_break |-> 0, end_line_break |-> 0]
NoView == [outer |-> NoSlice, inner |-> NoSlice, i |-> 0, j |-> 0, k |-> 0, l |-> 0]

Init ==
    /\ heap = <<[node |-> EmptyNode, rc |-> 1]>>
    /\ root = 1
    /\ pc = "idle"
    /\ seam = None
    /\ doc = <<>>
    /\ last = [op |-> "new", br |-> {}, split |-> {}, moved |-> FALSE]
    /\ seen = {}
    /\ nBulk = 0
    /\ nFree = 0
    /\ nBeyond = 0
    /\ nMerge = 0
    /\ forks = {}
    /\ view = NoView
    /\ status = "ok"
    /\ arrays = <<>>
    /\ held = <<>>
    /\ nArr = 0

\* A residual returned by the root becomes the second child of a new root.
RootWrap(h, id, residual) ==
    IF residual = NoNode THEN [h |-> h, id |-> id]
    ELSE LET a == ArcNew(h, residual)
         IN ArcNew(a.h, InternalNode(<<text_info(h[id].node), text_info(residual)>>,
                                     <<id, a.id>>))

\* Insertion of text at scalar index char_pos of a string.
StrInsert(t, char_pos, text) ==
    insert_str(t, char_pos_to_byte_pos(t, char_pos), text)

\* The end of Rope::insert before the seam repair: r is the result of
\* Node::insert on the root cell id.
InsertDone(id, r, char_pos, text) ==
    LET w == RootWrap(r.h, id, r.residual)
    IN /\ heap' = w.h
       /\ doc' = IF r.panic THEN doc ELSE StrInsert(doc, char_pos, text)
       /\ root' = w.id
       /\ seam' = r.seam
       /\ status' = IF r.panic THEN "panic" ELSE "ok"
       /\ last' = [op |-> "insert", br |-> r.br, split |-> r.split, moved |-> FALSE]
       /\ seen' = seen \cup r.br

\* Rope::insert, up to the seam repair.  kind tells which budget pays.
Insert(char_pos, text, kind) ==
    /\ pc = "idle"
    /\ status = "ok"
    /\ view = NoView
    /\ LET mm == make_mut(heap, root)
       IN InsertDone(mm.id, NodeInsert(mm.h, mm.id, char_pos, text), char_pos, text)
    /\ pc' = "seam"
    /\ nBulk' = IF kind = "bulk" THEN nBulk + 1 ELSE nBulk
    /\ nFree' = IF kind = "free" THEN nFree + 1 ELSE nFree
    /\ nBeyond' = IF kind = "beyond" THEN nBeyond + 1 ELSE nBeyond
    /\ UNCHANGED <<forks, nMerge, view, arrays, held, nArr>>

\* The texts of the leaves below cell id, left to right.
LeafTexts(h, id) ==
    LET ls == Leaves(h, id) IN [k \in DOMAIN ls |-> h[ls[k]].node.text]

\* f is the result of Node::fix_grapheme_seam on the root cell id.
FixSeamDone(id, f) ==
    /\ heap' = f.h
    /\ root' = id
    /\ status' = IF f.panic THEN "panic" ELSE "ok"
    /\ last' = [op |-> "seam",
                br |-> IF f.fixed THEN {"siblings"} ELSE {"edge"},
                split |-> {},
                moved |-> LeafTexts(f.h, id) # LeafTexts(heap, root)]
    /\ seen' = seen \cup (IF f.fixed THEN {"siblings"} ELSE {"edge"})

\* Rope::insert, the seam repair that ends it.
FixSeam ==
    /\ pc = "seam"
    /\ status = "ok"
    /\ IF seam = None
       THEN /\ UNCHANGED <<heap, root, status, seen>>
            /\ last' = [op |-> "seam", br |-> {"no_seam"}, split |-> {}, moved |-> FALSE]
       ELSE LET mm == make_mut(heap, root)
            IN FixSeamDone(mm.id, fix_grapheme_seam(mm.h, mm.id, seam))
    /\ pc' = "idle"
    /\ seam' = None
    /\ UNCHANGED <<doc, nBulk, nFree, nBeyond, nMerge, forks, view, arrays, held, nArr>>

\* Rope::len_chars
len_chars == text_info(heap[root].node).chars

InsertBulk ==
    /\ pc = "idle"
    /\ nBulk < MaxBulk
    /\ Insert(len_chars, Bulk, "bulk")

InsertFree ==
    /\ pc = "idle"
    /\ nFree < MaxFree
    /\ \E text \in FreeTexts : \E char_pos \in FreePositions(len_chars) :
            Insert(char_pos, text, "free")

Next == InsertBulk \/ InsertFree \/ FixSeam

Spec == Init /\ [][Next]_vars

\* ------------------------------------------------------------------------
\* Forks, merges and calls outside the contract

\* The operations other than appends done so far.
Extras == nFree + nBeyond + nMerge + Cardinality(forks)

\* The nodes reachable from cell id, as they are in heap h.
Snapshot(h, id) == [n \in Nodes(h, id) |-> h[n].node]

\* The handles a fork may clone: the root and its first and last child.
ForkTargets ==
    {root} \cup
    (IF heap[root].node.kind = "Internal"
     THEN {heap[root].node.children[1],
           heap[root].node.children[Len(heap[root].node.children)]}
     ELSE {})

\* Arc::clone of the handle to cell n; the clone is kept by an observer.
Fork ==
    /\ pc = "idle"
    /\ status = "ok"
    /\ view = NoView
    /\ Cardinality(forks) < MaxForks
    /\ Extras < MaxExtras
    /\ \E n \in ForkTargets :
          /\ \A f \in forks : f.id # n
          /\ heap' = ArcClone(heap, n)
          /\ forks' = forks \cup {[id |-> n, snap |-> Snapshot(heap, n)]}
    /\ last' = [op |-> "fork", br |-> {}, split |-> {}, moved |-> FALSE]
    /\ UNCHANGED <<root, pc, seam, doc, seen, nBulk, nFree, nBeyond, nMerge, view, status,
                   arrays, held, nArr>>

\* The left sibling of the pairs that are merged: the first and the last.
MergeIndices(len) == {0, len - 2} \cap (0..(len - 2))

\* m is the result of merge_distribute on the child array of the root cell id.
MergeDone(id, m) ==
    /\ heap' = m.h
    /\ root' = id
    /\ status' = IF m.panic THEN "panic" ELSE "ok"
    /\ last' = [op |-> "merge",
                br |-> IF m.merged THEN {"merged"} ELSE {"distributed"},
                split |-> {}, moved |-> FALSE]
    /\ seen' = seen \cup (IF m.merged THEN {"merged"} ELSE {"distributed"})

\* merge_distribute(idx1, idx1 + 1) on the children of the root.
MergeDistribute ==
    /\ pc = "idle"
    /\ status = "ok"
    /\ view = NoView
    /\ nMerge < MaxMerges
    /\ Extras < MaxExtras
    /\ heap[root].node.kind = "Internal"
    /\ \E idx1 \in MergeIndices(Len(heap[root].node.children)) :
          LET mm == make_mut(heap, root)
          IN MergeDone(mm.id, merge_distribute(mm.h, mm.id, idx1, idx1 + 1))
    /\ nMerge' = nMerge + 1
    /\ UNCHANGED <<pc, seam, doc, nBulk, nFree, nBeyond, forks, view, arrays, held, nArr>>

\* Rope::insert called with a char index one past the length of the text.
InsertBeyond ==
    /\ pc = "idle"
    /\ nBeyond < MaxBeyond
    /\ Extras < MaxExtras
    /\ Insert(len_chars + 1, <<"a">>, "beyond")

SeamTexts == {<<"r">>, <<"M", "c">>}

SeamPositions(n) == {BulkChars, n - 1} \cap (0..n)

\* Rope::insert of a short text next to a boundary between leaves.
InsertSeam ==
    /\ pc = "idle"
    /\ nFree < MaxFree
    /\ Extras < MaxExtras
    /\ \E text \in SeamTexts : \E char_pos \in SeamPositions(len_chars) :
            Insert(char_pos, text, "free")

NextOps == InsertBulk \/ InsertSeam \/ FixSeam \/ Fork \/ MergeDistribute \/ InsertBeyond

SpecOps == Init /\ [][NextOps]_vars

\* ------------------------------------------------------------------------
\* Node::char_to_byte, Node::char_to_line and RopeSlice

RECURSIVE char_to_byte(_, _, _)

\* An Internal arm that forgets the bytes before the child.
CharToByteInNoPrefix(h, n, char_idx, sc) ==
    IF ~sc.found THEN None
    ELSE IF char_idx = sc.acc.chars + n.info[sc.idx + 1].chars
    THEN n.info[sc.idx + 1].bytes
    ELSE char_to_byte(h, n.children[sc.idx + 1], char_idx - sc.acc.chars)

\* The Internal arm of char_to_byte after the search; n is the node.
CharToByteIn(h, n, char_idx, sc) ==
    IF ~sc.found THEN None
    ELSE IF char_idx = sc.acc.chars + n.info[sc.idx + 1].chars
    THEN sc.acc.bytes + n.info[sc.idx + 1].bytes
    ELSE sc.acc.bytes + char_to_byte(h, n.children[sc.idx + 1], char_idx - sc.acc.chars)

char_to_byte(h, id, char_idx) ==
    CASE h[id].node.kind = "Leaf" -> char_pos_to_byte_pos(h[id].node.text, char_idx)
      [] h[id].node.kind = "Internal" ->
            IF char_idx = 0 THEN 0
            ELSE CharToByteIn(h, h[id].node, char_idx,
                              search_combine(h[id].node.info, "chars", char_idx))
      [] OTHER -> 0

\* The line breaks of t that end at or before byte offset b: the index of
\* the line that the scalar at b belongs to.
LineBreaksBefore(t, b) ==
    Cardinality({p \in 1..b :
        \/ t[p] = "n"
        \/ (t[p] = "r" /\ (p = Len(t) \/ t[p + 1] # "n"))})

RECURSIVE char_to_line(_, _, _)

CharToLineIn(h, n, char_idx, sc) ==
    IF ~sc.found THEN None
    ELSE IF char_idx = sc.acc.chars + n.info[sc.idx + 1].chars
    THEN sc.acc.line_breaks + n.info[sc.idx + 1].line_breaks
    ELSE sc.acc.line_breaks
            + char_to_line(h, n.children[sc.idx + 1], char_idx - sc.acc.chars)

\* Node::char_to_line, after the pattern of char_to_byte
char_to_line(h, id, char_idx) ==
    CASE h[id].node.kind = "Leaf" ->
            LineBreaksBefore(h[id].node.text,
                             char_pos_to_byte_pos(h[id].node.text, char_idx))
      [] h[id].node.kind = "Internal" ->
            IF char_idx = 0 THEN 0
            ELSE CharToLineIn(h, h[id].node, char_idx,
                              search_combine(h[id].node.info, "chars", char_idx))
      [] OTHER -> 0

\* The byte offsets of t at which a line break ends.
BreakEnds(t) ==
    {p \in 1..Len(t) :
        \/ t[p] = "n"
        \/ (t[p] = "r" /\ (p = Len(t) \/ t[p + 1] # "n"))}

\* The scalar index at which line line_idx of the text t starts: 0 for the
\* first line, otherwise the scalar after the line_idx-th line break; the
\* scalar count of t when t has fewer line breaks.
LineStartChar(t, line_idx) ==
    IF line_idx = 0 THEN 0
    ELSE IF line_idx > Cardinality(BreakEnds(t)) THEN CharCount(t)
    ELSE CharCount(Take(t, CHOOSE p \in BreakEnds(t) :
                              Cardinality({q \in BreakEnds(t) : q <= p}) = line_idx))

RECURSIVE line_to_char(_, _, _)

\* The Internal arm of line_to_char after the search; n is the node.
LineToCharIn(h, n, line_idx, sc) ==
    IF ~sc.found THEN None
    ELSE sc.acc.chars + line_to_char(h, n.children[sc.idx + 1],
                                     line_idx - sc.acc.line_breaks)

\* Node::line_to_char, after the pattern of char_to_byte with the line
\* break metric
line_to_char(h, id, line_idx) ==
    CASE h[id].node.kind = "Leaf" -> LineStartChar(h[id].node.text, line_idx)
      [] h[id].node.kind = "Internal" ->
            IF line_idx = 0 THEN 0
            ELSE LineToCharIn(h, h[id].node, line_idx,
                              search_combine(h[id].node.info, "line_breaks", line_idx))
      [] OTHER -> 0

\* for (i, inf) in children.info().iter().enumerate(): the first child whose
\* chars hold the whole range, and the chars before it.
RECURSIVE FindChild(_, _, _, _, _)
FindChild(inf, n_start, n_end, i, start_char) ==
    IF i >= Len(inf) THEN [found |-> FALSE, i |-> 0, start_char |-> 0]
    ELSE IF n_start >= start_char /\ n_end < start_char + inf[i + 1].chars
    THEN [found |-> TRUE, i |-> i, start_char |-> start_char]
    ELSE FindChild(inf, n_start, n_end, i + 1, start_char + inf[i + 1].chars)

RECURSIVE Deepest(_, _, _, _)

\* A descent that keeps the range in the coordinates of the parent.
DeepestInNoShift(h, id, n_start, n_end, hit) ==
    IF hit.found
    THEN Deepest(h, h[id].node.children[hit.i + 1], n_start, n_end)
    ELSE [node |-> id, n_start |-> n_start, n_end |-> n_end]

\* One round of the outer loop on an internal node.
DeepestIn(h, id, n_start, n_end, hit) ==
    IF hit.found
    THEN Deepest(h, h[id].node.children[hit.i + 1],
                 n_start - hit.start_char, n_end - hit.start_char)
    ELSE [node |-> id, n_start |-> n_start, n_end |-> n_end]

\* Find the deepest node that still contains the full range given.
Deepest(h, id, n_start, n_end) ==
    IF h[id].node.kind = "Internal"
    THEN DeepestIn(h, id, n_start, n_end,
                   FindChild(h[id].node.info, n_start, n_end, 0, 0))
    ELSE [node |-> id, n_start |-> n_start, n_end |-> n_end]

\* Create the slice
RopeSlice(h, d) ==
    [node |-> d.node,
     start_byte |-> char_to_byte(h, d.node, d.n_start),
     end_byte |-> char_to_byte(h, d.node, d.n_end),
     start_char |-> d.n_start,
     end_char |-> d.n_end,
     start_line_break |-> char_to_line(h, d.node, d.n_start),
     end_line_break |-> char_to_line(h, d.node, d.n_end)]

\* RopeSlice::new_with_range; NoSlice stands for the panic of an assert.
new_with_range(h, id, start, end) ==
    IF ~(start <= end /\ end <= text_info(h[id].node).chars) THEN NoSlice
    ELSE RopeSlice(h, Deepest(h, id, start, end))

\* RopeSlice::len_bytes, len_chars, len_lines
slice_len_bytes(s) == s.end_byte - s.start_byte
slice_len_chars(s) == s.end_char - s.start_char
slice_len_lines(s) == (s.end_line_break - s.start_line_break) + 1

\* The result of a query on a slice: a value, or the panic of an assert.
Returned(v) == [panic |-> FALSE, val |-> v]
Panicked == [panic |-> TRUE, val |-> 0]

\* RopeSlice::char_to_line
slice_char_to_line(h, s, char_idx) ==
    IF ~(char_idx <= slice_len_chars(s)) THEN Panicked
    ELSE IF char_idx = slice_len_chars(s) THEN Returned(slice_len_lines(s))
    ELSE Returned(char_to_line(h, s.node, s.start_char + char_idx) - s.start_line_break)

\* if raw_char_idx < start_char { 0 } else { raw_char_idx - start_char }
ClampToStart(s, raw_char_idx) ==
    IF raw_char_idx < s.start_char THEN 0 ELSE raw_char_idx - s.start_char

\* RopeSlice::line_to_char
slice_line_to_char(h, s, line_idx) ==
    IF ~(line_idx <= slice_len_lines(s)) THEN Panicked
    ELSE IF line_idx = slice_len_lines(s) THEN Returned(slice_len_chars(s))
    ELSE Returned(ClampToStart(s, line_to_char(h, s.node, s.start_line_break + line_idx)))

\* A sub-slice taken in the coordinates of the root of the rope.
SliceNoOffset(h, s, start, end) ==
    IF ~(start <= end /\ end <= slice_len_chars(s)) THEN NoSlice
    ELSE new_with_range(h, s.node, start, end)

\* RopeSlice::slice
slice(h, s, start, end) ==
    IF ~(start <= end /\ end <= slice_len_chars(s)) THEN NoSlice
    ELSE new_with_range(h, s.node, s.start_char + start, s.start_char + end)

\* The line from one start of a line to the next: the panic of either
\* line_to_char, or the slice between the two.
LineBetween(h, s, start, end) ==
    IF start.panic \/ end.panic THEN NoSlice
    ELSE slice(h, s, start.val, end.val)

\* RopeSlice::line
slice_line(h, s, line_idx) ==
    IF ~(line_idx < slice_len_lines(s)) THEN NoSlice
    ELSE LineBetween(h, s, slice_line_to_char(h, s, line_idx),
                     slice_line_to_char(h, s, line_idx + 1))

\* The scalars start..end of the text t.
CharRange(t, start, end) ==
    SubSeq(t, char_pos_to_byte_pos(t, start) + 1, char_pos_to_byte_pos(t, end))

\* The text that a slice denotes.
SliceText(h, s) == CharRange(Content(h, s.node), s.start_char, s.end_char)

\* The scalars of the leaves that lie left of the node in cell target, in
\* the tree below cell id.
RECURSIVE CharsBefore(_, _, _)
CharsBefore(h, id, target) ==
    IF id = target \/ h[id].node.kind # "Internal" THEN 0
    ELSE LET ch == h[id].node.children
             k == CHOOSE k \in DOMAIN ch : target \in Nodes(h, ch[k])
         IN CharCount(ContentOf(h, SubSeq(ch, 1, k - 1))) + CharsBefore(h, ch[k], target)

\* Whether child i (1-based) of the internal node n holds the whole range,
\* as the descent of new_with_range tests it.
ChildHolds(n, i, n_start, n_end) ==
    /\ n_start >= CombineAll(SubSeq(n.info, 1, i - 1)).chars
    /\ n_end < CombineAll(SubSeq(n.info, 1, i - 1)).chars + n.info[i].chars

\* self.slice(char_idx, char_idx + 1).chars().nth(0).unwrap(): the bytes of
\* the only scalar of the sub-slice.
OnlyChar(h, sub) == IF sub = NoSlice THEN Panicked ELSE Returned(SliceText(h, sub))

\* A char that reads the sub-slice without the bounds check.
SliceCharUnchecked(h, s, char_idx) ==
    OnlyChar(h, new_with_range(h, s.node, s.start_char + char_idx,
                               s.start_char + char_idx + 1))

\* RopeSlice::char
slice_char(h, s, char_idx) ==
    IF ~(char_idx < slice_len_chars(s)) THEN Panicked
    ELSE OnlyChar(h, slice(h, s, char_idx, char_idx + 1))

\* The text below a node with the byte offsets of its scalars.
NodeText(h, id) == [t |-> Content(h, id), lo |-> LeadOffsets(Content(h, id))]

\* Node::is_grapheme_boundary on the text T of the node: true at 0 and at
\* char_count(), otherwise the extended grapheme cluster rule.
is_grapheme_boundary(T, char_idx) ==
    \/ char_idx <= 0
    \/ char_idx >= Len(T.lo)
    \/ IsGraphemeBoundaryByte(T.t, T.lo[char_idx + 1])

\* The largest boundary at or below char_idx.
RECURSIVE BoundaryAtOrBelow(_, _)
BoundaryAtOrBelow(T, char_idx) ==
    IF char_idx <= 0 THEN 0
    ELSE IF is_grapheme_boundary(T, char_idx) THEN char_idx
    ELSE BoundaryAtOrBelow(T, char_idx - 1)

\* The smallest boundary at or above char_idx.
RECURSIVE BoundaryAtOrAbove(_, _)
BoundaryAtOrAbove(T, char_idx) ==
    IF char_idx >= Len(T.lo) THEN Len(T.lo)
    ELSE IF is_grapheme_boundary(T, char_idx) THEN char_idx
    ELSE BoundaryAtOrAbove(T, char_idx + 1)

\* Node::prev_grapheme_boundary: the largest boundary strictly less than
\* char_idx, clamped to 0.
prev_grapheme_boundary(T, char_idx) == BoundaryAtOrBelow(T, char_idx - 1)

\* Node::next_grapheme_boundary: the smallest boundary strictly greater
\* than char_idx, clamped to char_count().
next_grapheme_boundary(T, char_idx) == BoundaryAtOrAbove(T, char_idx + 1)

\* RopeSlice::is_grapheme_boundary; T is the text of self.node.
slice_is_grapheme_boundary(T, s, char_idx) ==
    IF ~(char_idx <= slice_len_chars(s)) THEN Panicked
    ELSE IF char_idx = 0 \/ char_idx = slice_len_chars(s) THEN Returned(TRUE)
    ELSE Returned(is_grapheme_boundary(T, s.start_char + char_idx))

\* RopeSlice::prev_grapheme_boundary
slice_prev_grapheme_boundary(T, s, char_idx) ==
    IF ~(char_idx <= slice_len_chars(s)) THEN Panicked
    ELSE Returned(ClampToStart(s, prev_grapheme_boundary(T, s.start_char + char_idx)))

\* if boundary_idx >= end_char { len_chars() } else { boundary_idx - start_char }
ClampToEnd(s, boundary_idx) ==
    IF boundary_idx >= s.end_char THEN slice_len_chars(s)
    ELSE boundary_idx - s.start_char

\* A next_grapheme_boundary that does not stop at the end of the slice.
SliceNextUnclamped(T, s, char_idx) ==
    IF ~(char_idx <= slice_len_chars(s)) THEN Panicked
    ELSE Returned(next_grapheme_boundary(T, s.start_char + char_idx) - s.start_char)

\* RopeSlice::next_grapheme_boundary
slice_next_grapheme_boundary(T, s, char_idx) ==
    IF ~(char_idx <= slice_len_chars(s)) THEN Panicked
    ELSE Returned(ClampToEnd(s, next_grapheme_boundary(T, s.start_char + char_idx)))

\* The pieces of the leaf texts ts that lie in the scalars start..end,
\* counted from the start of the first text.
RECURSIVE ClipLeaves(_, _, _)
ClipLeaves(ts, start, end) ==
    IF Len(ts) = 0 THEN <<>>
    ELSE (IF start < CharCount(ts[1]) /\ end > 0 /\ start < end
          THEN <<CharRange(ts[1], IF start < 0 THEN 0 ELSE start,
                           IF end > CharCount(ts[1]) THEN CharCount(ts[1]) ELSE end)>>
          ELSE <<>>)
         \o ClipLeaves(Tail(ts), start - CharCount(ts[1]), end - CharCount(ts[1]))

\* One empty chunk when the range holds no scalar.
AtLeastOneChunk(cs) == IF Len(cs) = 0 THEN <<<<>>>> ELSE cs

\* RopeSlice::chunks, collected: the leaf texts clipped to the slice.
chunks(h, s) ==
    AtLeastOneChunk(ClipLeaves(LeafTexts(h, s.node), s.start_char, s.end_char))

RECURSIVE EqLoop(_, _, _, _)

\* The end of a round of the loop: an empty chunk is replaced by the next
\* one of its iterator, and the loop ends when there is none.
EqRefill2(chunk1, itr1, chunk2, itr2) ==
    IF Len(chunk2) = 0
    THEN IF Len(itr2) > 0 THEN EqLoop(chunk1, itr1, Head(itr2), Tail(itr2))
         ELSE Returned(TRUE)
    ELSE EqLoop(chunk1, itr1, chunk2, itr2)

EqRefill(chunk1, itr1, chunk2, itr2) ==
    IF Len(chunk1) = 0
    THEN IF Len(itr1) > 0 THEN EqRefill2(Head(itr1), Tail(itr1), chunk2, itr2)
         ELSE Returned(TRUE)
    ELSE EqRefill2(chunk1, itr1, chunk2, itr2)

\* A round of the loop.  &chunk[..n] and &chunk[n..] panic when n is not a
\* char boundary of chunk.
EqLoop(chunk1, itr1, chunk2, itr2) ==
    IF Len(chunk1) > Len(chunk2)
    THEN IF ~is_char_boundary(chunk1, Len(chunk2)) THEN Panicked
         ELSE IF Take(chunk1, Len(chunk2)) # chunk2 THEN Returned(FALSE)
         ELSE EqRefill(Drop(chunk1, Len(chunk2)), itr1, <<>>, itr2)
    ELSE IF ~is_char_boundary(chunk2, Len(chunk1)) THEN Panicked
         ELSE IF Take(chunk2, Len(chunk1)) # chunk1 THEN Returned(FALSE)
         ELSE EqRefill(<<>>, itr1, Drop(chunk2, Len(chunk1)), itr2)

\* chunk_itr.next().unwrap() on both iterators, then the loop
EqStart(cs1, cs2) ==
    IF Len(cs1) = 0 \/ Len(cs2) = 0 THEN Panicked
    ELSE EqLoop(Head(cs1), Tail(cs1), Head(cs2), Tail(cs2))

\* impl PartialEq<RopeSlice> for RopeSlice
slice_eq(h, s1, s2) ==
    IF slice_len_bytes(s1) # slice_len_bytes(s2) THEN Returned(FALSE)
    ELSE EqStart(chunks(h, s1), chunks(h, s2))

\* for chunk in self.chunks(): the chunk is compared with
\* &other[idx..(idx + chunk.len())], an index that panics when one of its
\* ends is not a char boundary of other.
RECURSIVE EqStrLoop(_, _, _)
EqStrLoop(cs, other, idx) ==
    IF Len(cs) = 0 THEN Returned(TRUE)
    ELSE IF \/ idx + Len(cs[1]) > Len(other)
            \/ ~is_char_boundary(other, idx)
            \/ ~is_char_boundary(other, idx + Len(cs[1]))
    THEN Panicked
    ELSE IF cs[1] # SubSeq(other, idx + 1, idx + Len(cs[1])) THEN Returned(FALSE)
    ELSE EqStrLoop(Tail(cs), other, idx + Len(cs[1]))

\* impl PartialEq<&str> for RopeSlice
slice_eq_str(h, s, other) ==
    IF slice_len_bytes(s) # Len(other) THEN Returned(FALSE)
    ELSE EqStrLoop(chunks(h, s), other, 0)

\* Rope::split_off(char_idx) on the rope whose root handle is cell id: the
\* receiver keeps the scalars before char_idx (cell self), the scalars from
\* char_idx on are returned as a new rope (cell ret).  The handle to cell id
\* is given up; nodes that other handles share are not written.
SplitOffText(h, t, char_idx) ==
    [h |-> ArcNew(ArcNew(h, LeafNode(CharRange(t, 0, char_idx))).h,
                  LeafNode(CharRange(t, char_idx, CharCount(t)))).h,
     self |-> Len(h) + 1,
     ret |-> Len(h) + 2]

split_off(h, id, char_idx) == SplitOffText(ArcDrop(h, id), Content(h, id), char_idx)

\* rope.split_off(end_char): the returned rope is dropped
KeepLeft(sp) == [h |-> ArcDrop(sp.h, sp.ret), id |-> sp.self]

\* rope = rope.split_off(start_char): the receiver is dropped
KeepRight(sp) == [h |-> ArcDrop(sp.h, sp.self), id |-> sp.ret]

\* Chop off right end if needed
ChopRight(rope, s, chars) ==
    IF s.end_char < chars THEN KeepLeft(split_off(rope.h, rope.id, s.end_char))
    ELSE rope

\* Chop off left end if needed
ChopLeft(rope, s) ==
    IF s.start_char > 0 THEN KeepRight(split_off(rope.h, rope.id, s.start_char))
    ELSE rope

\* A to_rope that chops off the left end before the right end.
ToRopeLeftFirst(h, s) ==
    ChopRight(ChopLeft([h |-> ArcClone(h, s.node), id |-> s.node], s),
              s, text_info(h[s.node].node).chars)

\* RopeSlice::to_rope: the heap after the call and the root cell of the rope
to_rope(h, s) ==
    ChopLeft(ChopRight([h |-> ArcClone(h, s.node), id |-> s.node],
                       s, text_info(h[s.node].node).chars),
             s)

\* The char indices at which slices start and end.
SlicePositions(n) == {0, BulkChars - 197, BulkChars, 2 * BulkChars - 197, n} \cap (0..n)

\* The indices at which the queries on a slice of len scalars are asked,
\* the slice starting at scalar base of the rope.
Probes(base, len) ==
    ({0, 1, len - 1, len, len + 1}
        \cup {p - base : p \in SlicePositions(base + len)}
        \cup {p - base + 1 : p \in SlicePositions(base + len)}) \cap (0..(len + 1))

\* The slices of the rope that a slice of len scalars starting at scalar
\* base is compared with: as many scalars, from another start.
Others(h, id, base, len) ==
    {new_with_range(h, id, a, a + len) :
        a \in {a \in {0, 1, BulkChars, BulkChars + 1, base, base + 1} :
                  a + len <= text_info(h[id].node).chars}}

\* Whether the bytes t are UTF-8: every lead byte has its continuation
\* byte and every continuation byte its lead byte.
ValidUtf8(t) ==
    \A p \in 1..Len(t) :
        /\ t[p] = "M" => (p < Len(t) /\ t[p + 1] = "c")
        /\ t[p] = "c" => (p > 1 /\ t[p - 1] = "M")

\* The strings that a slice of text t is compared with: t itself, t moved
\* one byte to the right between two letters, letters only, and a shorter
\* string.
StrInputs(t) ==
    {o \in {t, Rep("a", Len(t)), <<"a">>}
            \cup (IF Len(t) >= 2
                  THEN {<<"a">> \o Take(t, Len(t) - 2) \o <<"a">>, Take(t, 1)}
                  ELSE {}) : ValidUtf8(o)}

\* Rope::slice(i, j)
Slice ==
    /\ pc = "idle"
    /\ status = "ok"
    /\ view = NoView
    /\ heap[root].node.kind # "Empty"
    /\ \E i \in SlicePositions(len_chars) : \E j \in SlicePositions(len_chars) :
          /\ i <= j
          /\ view' = [outer |-> new_with_range(heap, root, i, j), inner |-> NoSlice,
                      i |-> i, j |-> j, k |-> 0, l |-> 0]
    /\ UNCHANGED <<heap, root, pc, seam, doc, last, seen, nBulk, nFree, nBeyond,
                   nMerge, forks, status, arrays, held, nArr>>

\* RopeSlice::slice(k, l) on the slice taken from the rope
SubSlice ==
    /\ view.outer # NoSlice
    /\ view.inner = NoSlice
    /\ \E a \in SlicePositions(len_chars) : \E b \in SlicePositions(len_chars) :
          /\ view.i <= a /\ a <= b /\ b <= view.j
          /\ view' = [view EXCEPT !.inner = slice(heap, view.outer, a - view.i, b - view.i),
                                  !.k = a - view.i, !.l = b - view.i]
    /\ UNCHANGED <<heap, root, pc, seam, doc, last, seen, nBulk, nFree, nBeyond,
                   nMerge, forks, status, arrays, held, nArr>>

\* The slices go out of scope; the rope may be edited again.
Release ==
    /\ view # NoView
    /\ view' = NoView
    /\ UNCHANGED <<heap, root, pc, seam, doc, last, seen, nBulk, nFree, nBeyond,
                   nMerge, forks, status, arrays, held, nArr>>

NextView == InsertBulk \/ InsertSeam \/ FixSeam \/ Slice \/ Release

SpecView == Init /\ [][NextView]_vars

NextSlice == InsertBulk \/ InsertSeam \/ FixSeam \/ Slice \/ SubSlice \/ Release

SpecSlice == Init /\ [][NextSlice]_vars

\* ------------------------------------------------------------------------
\* ChildArray: MAX_LEN slots of (info, node handle) and a length.  The slots
\* at or above len keep the bits they held last; NoInfo and NoHandle stand
\* for memory that was never written.

NoInfo == [bytes |-> None, chars |-> None, line_breaks |-> None]
NoHandle == 0
Item(inf, node) == [info |-> inf, node |-> node]
NoItem == Item(NoInfo, NoHandle)

\* The result of an operation on an array: the array afterwards and what
\* the operation returns (an item or an array).
ArrayResult(a, out) == [panic |-> FALSE, a |-> a, out |-> out]
ArrayPanic(a) == [panic |-> TRUE, a |-> a, out |-> NoItem]

\* ChildArray::new
ca_new ==
    [info |-> [k \in 1..MAX_LEN |-> NoInfo],
     nodes |-> [k \in 1..MAX_LEN |-> NoHandle],
     len |-> 0]

\* ChildArray::nodes and ChildArray::info: the slots below len
ca_nodes(a) == Take(a.nodes, a.len)
ca_info(a) == Take(a.info, a.len)

\* The items of the array, in order.
ca_items(a) == [k \in 1..a.len |-> Item(a.info[k], a.nodes[k])]

\* ChildArray::push
ca_push(a, item) ==
    IF ~(a.len < MAX_LEN) THEN ArrayPanic(a)
    ELSE ArrayResult([info |-> [a.info EXCEPT ![a.len + 1] = item.info],
                      nodes |-> [a.nodes EXCEPT ![a.len + 1] = item.node],
                      len |-> a.len + 1],
                     NoItem)

\* ChildArray::pop: the item is read out of its slot, which keeps its bits.
ca_pop(a) ==
    IF ~(a.len > 0) THEN ArrayPanic(a)
    ELSE ArrayResult([a EXCEPT !.len = @ - 1], Item(a.info[a.len], a.nodes[a.len]))

\* ptr::copy of the slots idx..len one slot up, and x written to slot idx
ShiftUp(slots, idx, len, x) ==
    [k \in 1..MAX_LEN |->
        IF k = idx + 1 THEN x
        ELSE IF k > idx + 1 /\ k <= len + 1 THEN slots[k - 1]
        ELSE slots[k]]

\* ptr::copy of the slots idx+1..len one slot down
ShiftDown(slots, idx, len) ==
    [k \in 1..MAX_LEN |-> IF k > idx /\ k < len THEN slots[k + 1] ELSE slots[k]]

\* ChildArray::insert
ca_insert(a, idx, item) ==
    IF ~(idx <= a.len) \/ ~(a.len < MAX_LEN) THEN ArrayPanic(a)
    ELSE ArrayResult([info |-> ShiftUp(a.info, idx, a.len, item.info),
                      nodes |-> ShiftUp(a.nodes, idx, a.len, item.node),
                      len |-> a.len + 1],
                     NoItem)

\* ChildArray::remove
ca_remove(a, idx) ==
    IF ~(a.len > 0) \/ ~(idx < a.len) THEN ArrayPanic(a)
    ELSE ArrayResult([info |-> ShiftDown(a.info, idx, a.len),
                      nodes |-> ShiftDown(a.nodes, idx, a.len),
                      len |-> a.len - 1],
                     Item(a.info[idx + 1], a.nodes[idx + 1]))

RECURSIVE SplitOffLoop(_, _, _, _)

\* other.push(item), item removed from self
SplitOffPushed(self, p, idx, count) ==
    IF p.panic THEN ArrayPanic(self) ELSE SplitOffLoop(self, p.a, idx, count - 1)

\* r is the result of self.remove(idx)
SplitOffRemoved(r, other, idx, count) ==
    IF r.panic THEN r ELSE SplitOffPushed(r.a, ca_push(other, r.out), idx, count)

\* for _ in 0..count { other.push(self.remove(idx)); }
SplitOffLoop(self, other, idx, count) ==
    IF count = 0 THEN ArrayResult(self, other)
    ELSE SplitOffRemoved(ca_remove(self, idx), other, idx, count)

\* ChildArray::split_off
ca_split_off(a, idx) ==
    IF ~(idx <= a.len) THEN ArrayPanic(a)
    ELSE SplitOffLoop(a, ca_new, idx, a.len - idx)

PushSplitRCount(len) == (len + 1) \div 2
PushSplitLCount(len) == (len + 1) - PushSplitRCount(len)

\* right.push(new_child), right split off self
PushSplitRight(s, new_child) ==
    IF s.panic THEN s ELSE ArrayResult(s.a, ca_push(s.out, new_child).a)

\* ChildArray::push_split
ca_push_split(a, new_child) ==
    PushSplitRight(ca_split_off(a, PushSplitLCount(a.len)), new_child)

\* self.insert(idx, item) after extra was popped off self
InsertSplitPopped(e, idx, item) ==
    IF e.panic THEN e ELSE [ca_insert(e.a, idx, item) EXCEPT !.out = e.out]

\* self.push_split(extra)
InsertSplitExtra(x) == IF x.panic THEN x ELSE ca_push_split(x.a, x.out)

\* An insert_split that keeps the new item as the extra one and puts the
\* popped item at idx.
ca_insert_split_swapped(a, idx, item) ==
    IF ~(a.len > 0) \/ ~(idx <= a.len) THEN ArrayPanic(a)
    ELSE IF idx < a.len
    THEN InsertSplitExtra([ca_insert(ca_pop(a).a, idx, ca_pop(a).out) EXCEPT !.out = item])
    ELSE ca_push_split(a, item)

\* ChildArray::insert_split
ca_insert_split(a, idx, item) ==
    IF ~(a.len > 0) \/ ~(idx <= a.len) THEN ArrayPanic(a)
    ELSE IF idx < a.len
    THEN InsertSplitExtra(InsertSplitPopped(ca_pop(a), idx, item))
    ELSE ca_push_split(a, item)

\* The slot a reference points into
SlotRef(slot) == [panic |-> FALSE, slot |-> slot]
SlotPanic == [panic |-> TRUE, slot |-> None]

\* ChildArray::i and ChildArray::i_mut: references to self.info[self.len] and
\* self.nodes[self.len]; the index is out of the bounds of a full array.
ca_i(a, n) ==
    IF ~(n < a.len) THEN SlotPanic
    ELSE IF ~(a.len < MAX_LEN) THEN SlotPanic
    ELSE SlotRef(a.len)

\* A clone that copies the slots without cloning the handles in them.
ca_clone_bits(h, a) ==
    [h |-> h,
     a |-> [info |-> [k \in 1..MAX_LEN |-> IF k <= a.len THEN a.info[k] ELSE NoInfo],
            nodes |-> [k \in 1..MAX_LEN |-> IF k <= a.len THEN a.nodes[k] ELSE NoHandle],
            len |-> a.len]]

\* Clone for ChildArray: every handle below len is cloned into a new array.
ca_clone(h, a) ==
    [h |-> CloneHandles(h, ca_nodes(a)),
     a |-> [info |-> [k \in 1..MAX_LEN |-> IF k <= a.len THEN a.info[k] ELSE NoInfo],
            nodes |-> [k \in 1..MAX_LEN |-> IF k <= a.len THEN a.nodes[k] ELSE NoHandle],
            len |-> a.len]]

\* Drop for ChildArray: every handle below len is dropped.
ca_drop(h, a) == DropAll(h, ca_nodes(a))

\* The end of merge_distribute: m is the outcome for the two nodes; after a
\* merge the right slot is removed and its handle dropped, and the info
\* slots are refreshed.
ArrayMergeFinish(a, idx1, idx2, m) ==
    IF m.remove_right
    THEN [h |-> ArcDrop(m.h, a.nodes[idx2 + 1]),
          a |-> [ca_remove(a, idx2).a EXCEPT
                   !.info[idx1 + 1] = MergeInfoAfter(m.h, a.nodes[idx1 + 1])],
          merged |-> TRUE, panic |-> FALSE]
    ELSE [h |-> m.h,
          a |-> [a EXCEPT !.info[idx1 + 1] = MergeInfoAfter(m.h, a.nodes[idx1 + 1]),
                          !.info[idx2 + 1] = MergeInfoAfter(m.h, a.nodes[idx2 + 1])],
          merged |-> FALSE, panic |-> FALSE]

ArrayMergePanic(h, a) == [h |-> h, a |-> a, merged |-> FALSE, panic |-> TRUE]

\* match node1 { Leaf => ..., Internal => ... } on the two unique siblings
ArrayMergeNodes(h, a, idx1, idx2, n1, n2) ==
    IF h[n1].node.kind = "Leaf" /\ h[n2].node.kind = "Leaf"
    THEN ArrayMergeFinish(a, idx1, idx2,
             MergeLeaves(h, n1, n2, h[n1].node.text \o h[n2].node.text))
    ELSE IF h[n1].node.kind = "Internal" /\ h[n2].node.kind = "Internal"
    THEN ArrayMergeFinish(a, idx1, idx2,
             MergeInternals(h, n1, n2, h[n1].node, h[n2].node))
    ELSE ArrayMergePanic(h, a)

\* The two handles made unique by get_two_mut and Arc::make_mut
ArrayMergeUnique(a, idx1, idx2, m1, m2) ==
    ArrayMergeNodes(m2.h,
                    [a EXCEPT !.nodes[idx1 + 1] = m1.id, !.nodes[idx2 + 1] = m2.id],
                    idx1, idx2, m1.id, m2.id)

ArrayMergeSecond(a, idx1, idx2, m1) ==
    ArrayMergeUnique(a, idx1, idx2, m1, make_mut(m1.h, a.nodes[idx2 + 1]))

\* ChildArray::merge_distribute on the slots of an array
ca_merge_distribute(h, a, idx1, idx2) ==
    IF ~(idx1 < idx2 /\ idx2 < a.len) THEN ArrayMergePanic(h, a)
    ELSE ArrayMergeSecond(a, idx1, idx2, make_mut(h, a.nodes[idx1 + 1]))

\* ------------------------------------------------------------------------
\* Child arrays and their callers

\* Leaf texts: two short ones, and one grapheme cluster in two parts that
\* is longer than MAX_BYTES
Tiny == <<"a", "r">>
TinyTail == <<"n", "a">>
ClusterHead == <<"a">> \o [k \in 1..200 |-> IF k % 2 = 1 THEN "M" ELSE "c"]
ClusterTail == [k \in 1..200 |-> IF k % 2 = 1 THEN "M" ELSE "c"]

\* The children an array starts with: a leaf with a text, or an internal
\* node over n short leaves
LeafOf(t) == [kind |-> "Leaf", text |-> t, n |-> 0]
InternalOf(n) == [kind |-> "Internal", text |-> <<>>, n |-> n]

Shapes ==
    { <<>>,
      <<LeafOf(Tiny)>>,
      [k \in 1..MAX_LEN |-> LeafOf(Tiny)],
      [k \in 1..(MAX_LEN - 1) |-> LeafOf(TinyTail)],
      <<LeafOf(Bulk), LeafOf(Bulk), LeafOf(Tiny), LeafOf(TinyTail)>>,
      <<LeafOf(ClusterHead), LeafOf(ClusterTail), LeafOf(Tiny)>>,
      <<InternalOf(15), InternalOf(3), InternalOf(15)>>,
      <<InternalOf(3), InternalOf(4), InternalOf(8), InternalOf(8)>>,
      <<InternalOf(16), InternalOf(1), InternalOf(16)>> }

\* n leaves of text t, each behind a new handle
NewLeaves(h, t, n) ==
    [h |-> h \o [k \in 1..n |-> [node |-> LeafNode(t), rc |-> 1]],
     ids |-> [k \in 1..n |-> Len(h) + k]]

InternalOver(g, t, n) ==
    ArcNew(g.h, InternalNode([k \in 1..n |-> TextInfoFromStr(t)], g.ids))

\* Arc::new of the node a shape asks for
NewChild(h, d) ==
    IF d.kind = "Leaf" THEN ArcNew(h, LeafNode(d.text))
    ELSE InternalOver(NewLeaves(h, Tiny, d.n), Tiny, d.n)

RECURSIVE Build(_, _, _)

BuildPushed(c, a, rest) ==
    Build(c.h, ca_push(a, Item(text_info(c.h[c.id].node), c.id)).a, rest)

\* The array made by pushing the children of a shape onto a
Build(h, a, shape) ==
    IF Len(shape) = 0 THEN [h |-> h, a |-> a]
    ELSE BuildPushed(NewChild(h, shape[1]), a, Drop(shape, 1))

\* Arrays owned by a caller, the items the caller holds outside of them, and
\* no rope.
InitArray ==
    /\ \E shape \in Shapes :
          /\ heap = Build(<<>>, ca_new, shape).h
          /\ arrays = <<Build(<<>>, ca_new, shape).a>>
    /\ held = <<>>
    /\ nArr = 0
    /\ root = NoHandle
    /\ pc = "idle"
    /\ seam = None
    /\ doc = <<>>
    /\ last = [op |-> "new", br |-> {}, split |-> {}, moved |-> FALSE]
    /\ seen = {}
    /\ nBulk = 0
    /\ nFree = 0
    /\ nBeyond = 0
    /\ nMerge = 0
    /\ forks = {}
    /\ view = NoView
    /\ status = "ok"

MaxArrayOps == 3
MaxArrays == 3

ArrayIndices(len) == {0, len \div 2, len - 1, len} \cap (0..len)

\* The item a caller passes in: the handle it has held longest, or a new
\* leaf.
Incoming(h, hd) ==
    IF Len(hd) > 0 THEN [h |-> h, item |-> hd[1], held |-> Drop(hd, 1)]
    ELSE [h |-> ArcNew(h, LeafNode(Tiny)).h,
          item |-> Item(TextInfoFromStr(Tiny), ArcNew(h, LeafNode(Tiny)).id),
          held |-> hd]

\* A call on an array has returned, or has panicked.
Returns(op, br, h, as, hd) ==
    /\ heap' = h
    /\ arrays' = as
    /\ held' = hd
    /\ status' = "ok"
    /\ last' = [op |-> op, br |-> br, split |-> {}, moved |-> FALSE]

Panics(op) ==
    /\ status' = "panic"
    /\ last' = [op |-> op, br |-> {"panic"}, split |-> {}, moved |-> FALSE]
    /\ UNCHANGED <<heap, arrays, held>>

\* The call changed array k only.
CommitArray(op, k, h, r, hd) ==
    IF r.panic THEN Panics(op)
    ELSE Returns(op, {}, h, [arrays EXCEPT ![k] = r.a], hd)

\* The call took an item out of array k; the caller holds it.
CommitItem(op, k, r) ==
    IF r.panic THEN Panics(op)
    ELSE Returns(op, {}, heap, [arrays EXCEPT ![k] = r.a], Append(held, r.out))

\* The call split a new array off array k.
CommitSplit(op, k, h, r, hd) ==
    IF r.panic THEN Panics(op)
    ELSE Returns(op, {}, h, Append([arrays EXCEPT ![k] = r.a], r.out), hd)

ArrayCall ==
    /\ status = "ok"
    /\ nArr < MaxArrayOps
    /\ nArr' = nArr + 1
    /\ UNCHANGED <<root, pc, seam, doc, seen, nBulk, nFree, nBeyond, nMerge, forks, view>>

PushCall(k, inc) == CommitArray("push", k, inc.h, ca_push(arrays[k], inc.item), inc.held)

ArrayPush ==
    /\ ArrayCall
    /\ \E k \in DOMAIN arrays : PushCall(k, Incoming(heap, held))

ArrayPop ==
    /\ ArrayCall
    /\ \E k \in DOMAIN arrays : CommitItem("pop", k, ca_pop(arrays[k]))

InsertCall(k, idx, inc) ==
    CommitArray("insert", k, inc.h, ca_insert(arrays[k], idx, inc.item), inc.held)

ArrayInsert ==
    /\ ArrayCall
    /\ \E k \in DOMAIN arrays : \E idx \in ArrayIndices(arrays[k].len) :
          InsertCall(k, idx, Incoming(heap, held))

ArrayRemove ==
    /\ ArrayCall
    /\ \E k \in DOMAIN arrays : \E idx \in ArrayIndices(arrays[k].len) :
          CommitItem("remove", k, ca_remove(arrays[k], idx))

ArraySplitOff ==
    /\ ArrayCall
    /\ Len(arrays) < MaxArrays
    /\ \E k \in DOMAIN arrays : \E idx \in ArrayIndices(arrays[k].len) :
          CommitSplit("split_off", k, heap, ca_split_off(arrays[k], idx), held)

PushSplitCall(k, inc) ==
    CommitSplit("push_split", k, inc.h, ca_push_split(arrays[k], inc.item), inc.held)

ArrayPushSplit ==
    /\ ArrayCall
    /\ Len(arrays) < MaxArrays
    /\ \E k \in DOMAIN arrays : PushSplitCall(k, Incoming(heap, held))

InsertSplitCall(k, idx, inc) ==
    CommitSplit("insert_split", k, inc.h,
                ca_insert_split(arrays[k], idx, inc.item), inc.held)

ArrayInsertSplit ==
    /\ ArrayCall
    /\ Len(arrays) < MaxArrays
    /\ \E k \in DOMAIN arrays : \E idx \in ArrayIndices(arrays[k].len) :
          InsertSplitCall(k, idx, Incoming(heap, held))

MergeCall(k, m) ==
    IF m.panic THEN Panics("merge_distribute")
    ELSE Returns("merge_distribute",
                 IF m.merged THEN {"merged"} ELSE {"distributed"},
                 m.h, [arrays EXCEPT ![k] = m.a], held)

ArrayMergeDistribute ==
    /\ ArrayCall
    /\ \E k \in DOMAIN arrays : \E idx1 \in MergeIndices(arrays[k].len) :
          MergeCall(k, ca_merge_distribute(heap, arrays[k], idx1, idx1 + 1))

CloneCall(c) == Returns("clone", {}, c.h, Append(arrays, c.a), held)

ArrayClone ==
    /\ ArrayCall
    /\ Len(arrays) < MaxArrays
    /\ \E k \in DOMAIN arrays : CloneCall(ca_clone(heap, arrays[k]))

\* An array goes out of scope.
ArrayDrop ==
    /\ ArrayCall
    /\ \E k \in DOMAIN arrays :
          Returns("drop", {}, ca_drop(heap, arrays[k]), av_remove(arrays, k - 1), held)

\* The caller drops the handle it has held longest.
HandleDrop ==
    /\ ArrayCall
    /\ Len(held) > 0
    /\ Returns("handle_drop", {}, ArcDrop(heap, held[1].node), arrays, Drop(held, 1))

NextArray ==
    \/ ArrayPush \/ ArrayPop \/ ArrayInsert \/ ArrayRemove \/ ArraySplitOff
    \/ ArrayPushSplit \/ ArrayInsertSplit \/ ArrayMergeDistribute \/ ArrayClone
    \/ ArrayDrop \/ HandleDrop

SpecArray == InitArray /\ [][NextArray]_vars

\* ------------------------------------------------------------------------
\* Properties

\* Node::verify_integrity on the tree below cell id.
verify_integrity(h, id) ==
    \A n \in Nodes(h, id) :
        h[n].node.kind = "Internal" =>
            /\ Len(h[n].node.info) = Len(h[n].node.children)
            /\ \A k \in DOMAIN h[n].node.children :
                  h[n].node.info[k] = text_info(h[h[n].node.children[k]].node)

\* C1: after an insertion (with the root wrapped around a residual) the
\* leaves read left to right are the previous text with the inserted text
\* at scalar index char_pos, in every branch of Node::insert.
C1_InsertText == Content(heap, root) = doc

C1_Witness ==
    /\ last.op = "insert"
    /\ {"leaf_split", "split_popped"} \subseteq last.br
    /\ {"empty", "residual_fit"} \subseteq seen
    /\ Content(heap, root) = doc

\* C2: if verify_integrity holds of the tree before Node::insert, it holds
\* of the tree after the insert and the root wrap: every internal node has
\* as many info slots as children and each slot equals the text_info of its
\* child, the right node of a split included.
C2_Integrity ==
    [][(pc = "idle" /\ pc' = "seam" /\ verify_integrity(heap, root))
          => verify_integrity(heap', root')]_vars

C2_Witness ==
    /\ last.op = "insert"
    /\ "split_last" \in last.br
    /\ heap[root].node.kind = "Internal"
    /\ Len(heap[root].node.children) = 2
    /\ verify_integrity(heap, root)

\* C3: after any sequence of insertions all leaves are at the same depth.
C3_Balance == Cardinality(Depths(heap, root)) = 1

C3_Witness ==
    /\ last.op = "insert"
    /\ "split_popped" \in last.br
    /\ Depths(heap, root) = {2}

\* C4: every non-root internal node has between MIN_CHILDREN and
\* MAX_CHILDREN children, no internal node has more than MAX_CHILDREN, and
\* a full node that receives a residual splits into 9 and 8 children.
C4_FanOut ==
    /\ \A n \in Nodes(heap, root) :
          heap[n].node.kind = "Internal" =>
            /\ Len(heap[n].node.children) <= MAX_CHILDREN
            /\ n # root => Len(heap[n].node.children) >= MIN_CHILDREN
    /\ \A sz \in last.split : sz = <<9, 8>>

C4_Witness ==
    /\ last.op = "insert"
    /\ last.split = {<<9, 8>>}
    /\ \E n \in Nodes(heap, root) :
          n # root /\ heap[n].node.kind = "Internal" /\ Len(heap[n].node.children) = 8

\* A leaf text that the leaf branch of Node::insert leaves whole: the split
\* near the middle gives an empty right half.
Unsplittable(t) == Len(split_string_near_byte(t, LeafSplitPos(Len(t))).right) = 0

\* C5: after every insertion followed by its seam repair, for inserted
\* texts of any length, every non-root leaf holds between MIN_BYTES and
\* MAX_BYTES bytes, unless it is a leaf that could not be split at all.
C5_LeafSize ==
    (pc = "idle" /\ status = "ok") =>
        \A k \in DOMAIN Leaves(heap, root) :
            Leaves(heap, root)[k] # root =>
                \/ /\ Len(LeafTexts(heap, root)[k]) >= MIN_BYTES
                   /\ Len(LeafTexts(heap, root)[k]) <= MAX_BYTES
                \/ Unsplittable(LeafTexts(heap, root)[k])

\* An extended grapheme cluster spans the boundary between the adjacent
\* texts l and r.
ClusterSpans(l, r) ==
    /\ Len(l) > 0
    /\ Len(r) > 0
    /\ ~IsGraphemeBoundaryByte(l \o r, Len(l))

\* C6: after an insertion followed by fix_grapheme_seam at the seam the
\* insertion reported (no repair when it reported none), no extended
\* grapheme cluster spans the boundary between two adjacent leaves, the
\* boundary made by the split of an overfull leaf included.
C6_GraphemeIntegrity ==
    (pc = "idle" /\ status = "ok") =>
        \A k \in 1..(Len(LeafTexts(heap, root)) - 1) :
            ~ClusterSpans(LeafTexts(heap, root)[k], LeafTexts(heap, root)[k + 1])

\* C7: a handle cloned before a mutation keeps its tree: after any insert,
\* fix_grapheme_seam (with fix_info_left and fix_info_right) and
\* merge_distribute through the other handle, every node reachable from
\* the clone has the text, children and info slots it had when cloned.
C7_Isolation ==
    \A f \in forks : \A n \in DOMAIN f.snap : heap[n].node = f.snap[n]

C7_Witness ==
    /\ last.op = "seam"
    /\ last.moved
    /\ \E f \in forks :
          /\ (DOMAIN f.snap) \ Nodes(heap, root) # {}
          /\ (DOMAIN f.snap) \cap Nodes(heap, root) # {}
          /\ \A n \in DOMAIN f.snap : heap[n].node = f.snap[n]

\* C8: a call outside the contract (Node::insert with char_pos greater
\* than the char count, merge_distribute on siblings of different variants)
\* panics, and the texts and info slots of the tree are then the same as
\* before the call, through the mutated handle and through every clone.
C8_AbortIntact ==
    [][(nBeyond' = nBeyond + 1 \/ (nMerge' = nMerge + 1 /\ status' = "panic"))
          => /\ status' = "panic"
             /\ Tree(heap', root') = Tree(heap, root)
             /\ \A f \in forks : \A n \in DOMAIN f.snap : heap'[n].node = f.snap[n]]_vars

\* C9: the slice new_with_range(root, start, end) has len_chars equal to
\* end - start, len_bytes equal to the bytes of the scalars start..end of
\* the text, and len_lines equal to the line breaks of that range plus one,
\* whichever subtree the descent selected.
C9_SliceLengths ==
    view.outer # NoSlice =>
        /\ slice_len_chars(view.outer) = view.j - view.i
        /\ slice_len_bytes(view.outer) = Len(CharRange(Content(heap, root), view.i, view.j))
        /\ slice_len_lines(view.outer)
              = LineBreaks(CharRange(Content(heap, root), view.i, view.j)) + 1

\* C10: rope.slice(i, j).slice(k, l) denotes the same text, with the same
\* chars, bytes and line count, as rope.slice(i + k, i + l).
C10_SliceComposition ==
    view.inner # NoSlice =>
        /\ SliceText(heap, view.inner)
              = SliceText(heap, new_with_range(heap, root, view.i + view.k, view.i + view.l))
        /\ SliceText(heap, view.inner)
              = CharRange(Content(heap, root), view.i + view.k, view.i + view.l)
        /\ slice_len_chars(view.inner)
              = slice_len_chars(new_with_range(heap, root, view.i + view.k, view.i + view.l))
        /\ slice_len_bytes(view.inner)
              = slice_len_bytes(new_with_range(heap, root, view.i + view.k, view.i + view.l))
        /\ slice_len_lines(view.inner)
              = slice_len_lines(new_with_range(heap, root, view.i + view.k, view.i + view.l))

C10_Witness ==
    /\ view.inner # NoSlice
    /\ view.outer.node # root
    /\ view.outer.start_char > 0
    /\ view.k > 0
    /\ view.l > view.k
    /\ view.inner.node # view.outer.node
    /\ SliceText(heap, view.inner)
          = CharRange(Content(heap, root), view.i + view.k, view.i + view.l)

\* C11: new_with_range ends at a node of the tree that is a leaf or an
\* internal node none of whose children holds the whole range, and the
\* stored start_char and end_char are the requested start and end minus
\* the scalars that lie left of that node in the tree.
C11_DeepestSubtree ==
    view.outer # NoSlice =>
        /\ view.outer.node \in Nodes(heap, root)
        /\ \/ heap[view.outer.node].node.kind = "Leaf"
           \/ /\ heap[view.outer.node].node.kind = "Internal"
              /\ \A c \in DOMAIN heap[view.outer.node].node.children :
                    ~ChildHolds(heap[view.outer.node].node, c,
                                view.outer.start_char, view.outer.end_char)
        /\ view.outer.start_char = view.i - CharsBefore(heap, root, view.outer.node)
        /\ view.outer.end_char = view.j - CharsBefore(heap, root, view.outer.node)

C11_Witness ==
    /\ view.outer # NoSlice
    /\ Depths(heap, root) = {2}
    /\ heap[view.outer.node].node.kind = "Leaf"
    /\ CharsBefore(heap, root, view.outer.node) > 0
    /\ view.outer.start_char = view.i - CharsBefore(heap, root, view.outer.node)
    /\ view.j > view.i

\* C12: on a slice, char_to_line(i) for i < len_chars() is the line index
\* of scalar start_char + i in the node minus the start line, which is the
\* number of line breaks of the text of the slice before position i and is
\* less than len_lines(); at i = len_chars() it is len_lines(); beyond
\* that it panics.
C12_CharToLine ==
    view.outer # NoSlice =>
        \A i \in Probes(view.i, slice_len_chars(view.outer)) :
            /\ i < slice_len_chars(view.outer) =>
                  /\ ~slice_char_to_line(heap, view.outer, i).panic
                  /\ slice_char_to_line(heap, view.outer, i).val
                        = char_to_line(heap, view.outer.node, view.outer.start_char + i)
                            - view.outer.start_line_break
                  /\ slice_char_to_line(heap, view.outer, i).val
                        = LineBreaksBefore(SliceText(heap, view.outer),
                              char_pos_to_byte_pos(SliceText(heap, view.outer), i))
                  /\ slice_char_to_line(heap, view.outer, i).val
                        < slice_len_lines(view.outer)
            /\ i = slice_len_chars(view.outer) =>
                  slice_char_to_line(heap, view.outer, i)
                      = Returned(slice_len_lines(view.outer))
            /\ i > slice_len_chars(view.outer) =>
                  slice_char_to_line(heap, view.outer, i).panic

\* Whether scalar index i of the text t is the start of a line: the start
\* of the text, or the scalar after a line break.
IsLineStart(t, i) ==
    \/ i = 0
    \/ char_pos_to_byte_pos(t, i) \in BreakEnds(t)

\* C13: on a slice, for every i in 0..len_chars(),
\* line_to_char(char_to_line(i)) is at most i, and equals i exactly when i
\* is the start of a line of the text of the slice.
C13_LineRoundTrip ==
    view.outer # NoSlice =>
        \A i \in Probes(view.i, slice_len_chars(view.outer)) :
            i <= slice_len_chars(view.outer) =>
                /\ ~slice_line_to_char(heap, view.outer,
                        slice_char_to_line(heap, view.outer, i).val).panic
                /\ slice_line_to_char(heap, view.outer,
                        slice_char_to_line(heap, view.outer, i).val).val <= i
                /\ (slice_line_to_char(heap, view.outer,
                        slice_char_to_line(heap, view.outer, i).val).val = i)
                     <=> IsLineStart(SliceText(heap, view.outer), i)

\* C14: on every slice s, char(i) panics for every i >= len_chars(), line(k)
\* panics for every k >= len_lines(), slice(a, b) panics when a > b or
\* b > len_chars(), and slice(i, i) for i <= len_chars() is a slice of zero
\* chars and zero bytes.
C14_SliceBounds ==
    view.outer # NoSlice =>
        /\ \A i \in Probes(view.i, slice_len_chars(view.outer)) :
              /\ i >= slice_len_chars(view.outer) =>
                    slice_char(heap, view.outer, i).panic
              /\ i <= slice_len_chars(view.outer) =>
                    /\ slice(heap, view.outer, i, i) # NoSlice
                    /\ slice_len_chars(slice(heap, view.outer, i, i)) = 0
                    /\ slice_len_bytes(slice(heap, view.outer, i, i)) = 0
        /\ \A a \in Probes(view.i, slice_len_chars(view.outer)) :
              \A b \in Probes(view.i, slice_len_chars(view.outer)) :
                  (a > b \/ b > slice_len_chars(view.outer)) =>
                      slice(heap, view.outer, a, b) = NoSlice
        /\ \A k \in {slice_len_lines(view.outer), slice_len_lines(view.outer) + 1} :
              slice_line(heap, view.outer, k) = NoSlice

C14_Witness ==
    /\ view.outer # NoSlice
    /\ slice_len_chars(view.outer) = 0
    /\ view.outer.start_char > 0
    /\ view.outer.node # root
    /\ slice_char(heap, view.outer, 0).panic
    /\ slice(heap, view.outer, 0, 0) # NoSlice
    /\ slice_len_bytes(slice(heap, view.outer, 0, 0)) = 0
    /\ slice(heap, view.outer, 0, 1) = NoSlice
    /\ slice_line(heap, view.outer, slice_len_lines(view.outer)) = NoSlice

\* C15: the comparison of two slices, whatever the positions at which
\* their chunks end, whether empty or not, does not panic and is true
\* exactly when the two texts are equal.
C15_SliceEq ==
    view.outer # NoSlice =>
        \A o \in Others(heap, root, view.i, view.j - view.i) :
            slice_eq(heap, view.outer, o)
                = Returned(SliceText(heap, view.outer) = SliceText(heap, o))

\* C16: the comparison of a slice with a string is true when the string
\* is the text of the slice and false otherwise; for a string of the same
\* byte length and another content it is false and does not panic, also
\* when the scalars of the string do not end where the chunks end.
C16_SliceEqStr ==
    view.outer # NoSlice =>
        \A o \in StrInputs(SliceText(heap, view.outer)) :
            slice_eq_str(heap, view.outer, o)
                = Returned(o = SliceText(heap, view.outer))

\* The rope r (a heap and a root cell) has the text t, and the nodes below
\* cell id are in its heap what they are in heap h.
RopeHolds(r, t, h, id) ==
    /\ Content(r.h, r.id) = t
    /\ \A n \in Nodes(h, id) : r.h[n].node = h[n].node

\* C17: for a slice s of a rope, s.to_rope() is a rope whose text is the
\* text of s (the right end is trimmed at end_char before the left end at
\* start_char), so slice(0, len_chars()).to_rope() has the text of the
\* rope, and the nodes of the rope that s was taken from are unchanged.
C17_ToRope ==
    view.outer # NoSlice =>
        RopeHolds(to_rope(heap, view.outer),
                  CharRange(Content(heap, root), view.i, view.j), heap, root)

C17_Witness ==
    /\ view.outer # NoSlice
    /\ view.outer.node # root
    /\ view.outer.start_char > 0
    /\ view.outer.end_char < text_info(heap[view.outer.node].node).chars
    /\ view.outer.end_char > view.outer.start_char
    /\ to_rope(heap, view.outer).id \notin Nodes(heap, root)
    /\ RopeHolds(to_rope(heap, view.outer), SliceText(heap, view.outer), heap, root)

\* On the slice s of the node text T: p is the largest index below i at
\* which is_grapheme_boundary is true (0 when i is 0).
IsPrevBoundary(T, s, i, p) ==
    \/ (i = 0 /\ p = 0)
    \/ /\ 0 <= p /\ p < i
       /\ slice_is_grapheme_boundary(T, s, p).val
       /\ \A j \in (p + 1)..(i - 1) : ~slice_is_grapheme_boundary(T, s, j).val

\* On the slice s of the node text T: n is the smallest index above i at
\* which is_grapheme_boundary is true (len_chars() when i is len_chars()).
IsNextBoundary(T, s, i, n) ==
    \/ (i = slice_len_chars(s) /\ n = slice_len_chars(s))
    \/ /\ i < n /\ n <= slice_len_chars(s)
       /\ slice_is_grapheme_boundary(T, s, n).val
       /\ \A j \in (i + 1)..(n - 1) : ~slice_is_grapheme_boundary(T, s, j).val

\* The navigation from index i of the slice s agrees with the boundary
\* predicate of the slice.
NavigationAgrees(T, s, i) ==
    /\ ~slice_prev_grapheme_boundary(T, s, i).panic
    /\ IsPrevBoundary(T, s, i, slice_prev_grapheme_boundary(T, s, i).val)
    /\ ~slice_next_grapheme_boundary(T, s, i).panic
    /\ IsNextBoundary(T, s, i, slice_next_grapheme_boundary(T, s, i).val)
    /\ (0 < i /\ i < slice_len_chars(s) /\ slice_is_grapheme_boundary(T, s, i).val) =>
          slice_prev_grapheme_boundary(T, s,
              slice_next_grapheme_boundary(T, s, i).val).val = i

\* C18: on a slice, with the boundaries being the indices j in
\* 0..len_chars() at which is_grapheme_boundary(j) is true (0 and
\* len_chars() always are), prev_grapheme_boundary(i) is the largest
\* boundary below i (0 at 0) and next_grapheme_boundary(i) the smallest
\* boundary above i (len_chars() at len_chars()), also when the slice starts
\* or ends inside a cluster of the tree; so prev(next(b)) = b for every
\* interior boundary b.
C18_GraphemeNavigation ==
    view.outer # NoSlice =>
        /\ slice_is_grapheme_boundary(NodeText(heap, view.outer.node), view.outer, 0).val
        /\ slice_is_grapheme_boundary(NodeText(heap, view.outer.node), view.outer,
                                      slice_len_chars(view.outer)).val
        /\ \A i \in Probes(view.i, slice_len_chars(view.outer)) :
              i <= slice_len_chars(view.outer) =>
                  NavigationAgrees(NodeText(heap, view.outer.node), view.outer, i)

C18_Witness ==
    /\ view.outer # NoSlice
    /\ view.outer.node # root
    /\ view.outer.start_char > 0
    /\ slice_len_chars(view.outer) > 2
    /\ ~is_grapheme_boundary(NodeText(heap, view.outer.node), view.outer.start_char)
    /\ ~is_grapheme_boundary(NodeText(heap, view.outer.node), view.outer.end_char)
    /\ slice_prev_grapheme_boundary(NodeText(heap, view.outer.node), view.outer, 1).val = 0
    /\ slice_next_grapheme_boundary(NodeText(heap, view.outer.node), view.outer,
                                    slice_len_chars(view.outer) - 1).val
          = slice_len_chars(view.outer)
    /\ next_grapheme_boundary(NodeText(heap, view.outer.node), view.outer.end_char - 1)
          > view.outer.end_char

\* The scalar indices at which the leaf texts ts end, acc scalars lying
\* before the first of them.
RECURSIVE LeafEnds(_, _)
LeafEnds(ts, acc) ==
    IF Len(ts) = 0 THEN {}
    ELSE {acc + CharCount(ts[1])} \cup LeafEnds(Tail(ts), acc + CharCount(ts[1]))

\* The scalar indices at which char_to_byte is asked on a tree of n
\* scalars: the ends of the text, and every boundary between two leaves
\* with its two neighbours.
CharProbes(ts, n) ==
    ({0, 1, n - 1, n}
        \cup UNION {{b - 1, b, b + 1} : b \in LeafEnds(ts, 0)}) \cap (0..n)

\* The byte offset of scalar i of the text T, the byte count of T when i
\* is its scalar count.
ByteOffset(T, i) == IF i < Len(T.lo) THEN T.lo[i + 1] ELSE Len(T.t)

\* char_to_byte on the tree below cell id is right at i and increases
\* from i to i + 1.
CharToByteAgrees(h, id, T, i) ==
    /\ char_to_byte(h, id, i) = ByteOffset(T, i)
    /\ i < Len(T.lo) => char_to_byte(h, id, i) < char_to_byte(h, id, i + 1)

\* C19: on a tree whose info slots equal the summaries of the children,
\* Node::char_to_byte(i) is for every i in 0..char_count() the byte offset
\* of scalar i in the concatenated leaf texts (0 at 0, byte_count() at
\* char_count()), also at a boundary between two children where the
\* short-circuit answers, and it is strictly increasing in i.
C19_CharToByte ==
    verify_integrity(heap, root) =>
        /\ char_to_byte(heap, root, 0) = 0
        /\ char_to_byte(heap, root, text_info(heap[root].node).chars)
              = text_info(heap[root].node).bytes
        /\ text_info(heap[root].node).bytes = Len(Content(heap, root))
        /\ \A i \in CharProbes(LeafTexts(heap, root), text_info(heap[root].node).chars) :
              CharToByteAgrees(heap, root, NodeText(heap, root), i)

C19_Witness ==
    /\ verify_integrity(heap, root)
    /\ Depths(heap, root) = {2}
    /\ \E b \in LeafEnds(LeafTexts(heap, root), 0) :
          /\ b = text_info(heap[heap[root].node.children[1]].node).chars
          /\ char_to_byte(heap, root, b) = heap[root].node.info[1].bytes
          /\ char_to_byte(heap, root, b + 1) = ByteOffset(NodeText(heap, root), b + 1)
          /\ char_to_byte(heap, root, b + 1) > heap[root].node.info[1].bytes

\* C20: if every info slot of the tree equals the summary of its child
\* before fix_grapheme_seam(byte_pos), the same holds after it of every
\* internal node: the node where the two siblings meet, the nodes on the
\* spines below it and every ancestor above it, also when the repair
\* changes the line breaks of a leaf (a CR joined with the LF that follows).
C20_SeamIntegrity ==
    [][(pc = "seam" /\ pc' = "idle" /\ seam # None /\ verify_integrity(heap, root))
          => verify_integrity(heap', root')]_vars

\* An item that is in no array: a new leaf behind a new handle.
FreshItem == Item(TextInfoFromStr(Tiny), Len(heap) + 1)

\* r is what insert_split(idx, item) made of array a: the receiver followed
\* by the returned array is a with item at idx, in two balanced halves.
InsertSplitHolds(a, idx, item, r) ==
    /\ ~r.panic
    /\ ca_items(r.a) \o ca_items(r.out) = av_insert(ca_items(a), idx, item)
    /\ r.a.len = (a.len + 2) \div 2
    /\ r.out.len = (a.len + 1) \div 2

\* The receiver and the returned array of a split, as sequences of items
SplitHalves(r) == [panic |-> r.panic, left |-> ca_items(r.a), right |-> ca_items(r.out)]

\* C21: for every non-empty array, a full one included, and every idx in
\* 0..=len, after insert_split(idx, item) the receiver followed by the
\* returned array is the original sequence of (info, node) pairs with item at
\* position idx, the receiver holds ceil((len+1)/2) items and the returned
\* array floor((len+1)/2); push_split(item) gives what insert_split(len, item)
\* gives.
C21_InsertSplit ==
    status = "ok" =>
        \A k \in DOMAIN arrays :
            arrays[k].len > 0 =>
                /\ \A idx \in 0..arrays[k].len :
                      InsertSplitHolds(arrays[k], idx, FreshItem,
                                       ca_insert_split(arrays[k], idx, FreshItem))
                /\ SplitHalves(ca_push_split(arrays[k], FreshItem))
                     = SplitHalves(ca_insert_split(arrays[k], arrays[k].len, FreshItem))

\* A full array went through insert_split and came out as 9 and 8 items.
C21_Witness ==
    /\ status = "ok"
    /\ last.op = "insert_split"
    /\ Len(arrays) >= 2
    /\ arrays[Len(arrays)].len = MAX_LEN \div 2
    /\ \E k \in DOMAIN arrays : arrays[k].len = MAX_LEN \div 2 + 1

\* C22: for every n < len, ChildArray::i(n) and ChildArray::i_mut(n) return
\* references to the info and the node stored at position n of the array.
C22_IndexedAccess ==
    status = "ok" =>
        \A k \in DOMAIN arrays :
            \A n \in 0..(arrays[k].len - 1) : ca_i(arrays[k], n) = SlotRef(n)

\* The texts of the leaves below the handles ns, concatenated
RECURSIVE ArrayText(_, _)
ArrayText(h, ns) ==
    IF Len(ns) = 0 THEN <<>> ELSE ArrayText(h, av_pop(ns)) \o Content(h, ns[Len(ns)])

\* The items of an array other than those at idx and idx + 1
OtherItems(items, idx) == av_remove(av_remove(items, idx + 1), idx)

\* r is what merge_distribute(idx1, idx1 + 1) made of array a in heap h,
\* where slots idx1 and idx1 + 1 held leaves whose texts concatenate to t.
LeafMergeHolds(h, a, idx1, t, r) ==
    /\ ~r.panic
    /\ ArrayText(r.h, ca_nodes(r.a)) = ArrayText(h, ca_nodes(a))
    /\ r.merged <=> (Len(t) <= MAX_BYTES \/ ~\E p \in 1..(Len(t) - 1) : InteriorBoundary(t, p))
    /\ r.a.info[idx1 + 1] = text_info(r.h[r.a.nodes[idx1 + 1]].node)
    /\ r.merged =>
          /\ r.a.len = a.len - 1
          /\ r.h[r.a.nodes[idx1 + 1]].node = LeafNode(t)
          /\ av_remove(ca_items(r.a), idx1) = OtherItems(ca_items(a), idx1)
    /\ ~r.merged =>
          /\ r.a.len = a.len
          /\ OtherItems(ca_items(r.a), idx1) = OtherItems(ca_items(a), idx1)
          /\ r.a.info[idx1 + 2] = text_info(r.h[r.a.nodes[idx1 + 2]].node)
          /\ r.h[r.a.nodes[idx1 + 1]].node.kind = "Leaf"
          /\ r.h[r.a.nodes[idx1 + 2]].node.kind = "Leaf"
          /\ Len(r.h[r.a.nodes[idx1 + 1]].node.text) > 0
          /\ Len(r.h[r.a.nodes[idx1 + 2]].node.text) > 0
          /\ InteriorBoundary(t, Len(r.h[r.a.nodes[idx1 + 1]].node.text))

\* Whether slots idx and idx + 1 of array a hold leaves.
TwoLeaves(h, a, idx) ==
    /\ idx + 1 < a.len
    /\ h[a.nodes[idx + 1]].node.kind = "Leaf"
    /\ h[a.nodes[idx + 2]].node.kind = "Leaf"

\* C23: merge_distribute(i, i + 1) on two leaf children never changes the
\* concatenated text of the array; it returns true and removes slot i + 1
\* exactly when the combined text fits in MAX_BYTES or has no interior
\* grapheme boundary (one oversized leaf is left); otherwise it returns
\* false, both leaves are non-empty and the split point is a grapheme boundary
\* interior to the combined text; info[i] (and info[i + 1] when not merged)
\* equals the text_info of its node, and the length drops by one only on
\* a merge.
C23_LeafMerge ==
    status = "ok" =>
        \A k \in DOMAIN arrays : \A idx1 \in 0..(arrays[k].len - 2) :
            TwoLeaves(heap, arrays[k], idx1) =>
                LeafMergeHolds(heap, arrays[k], idx1,
                    heap[arrays[k].nodes[idx1 + 1]].node.text
                        \o heap[arrays[k].nodes[idx1 + 2]].node.text,
                    ca_merge_distribute(heap, arrays[k], idx1, idx1 + 1))

\* merge_distribute has merged two leaves into a leaf that is longer than
\* MAX_BYTES, the two parts of one grapheme cluster.
C23_Witness ==
    /\ status = "ok"
    /\ last.op = "merge_distribute"
    /\ "merged" \in last.br
    /\ \E k \in DOMAIN arrays :
          /\ arrays[k].len > 0
          /\ heap[arrays[k].nodes[1]].node = LeafNode(ClusterHead \o ClusterTail)

\* The (info, node) pairs of the children of the internal node in cell id
Grandchildren(h, id) ==
    [k \in DOMAIN h[id].node.children |->
        Item(h[id].node.info[k], h[id].node.children[k])]

\* r is what merge_distribute(idx1, idx1 + 1) made of array a in heap h,
\* where slots idx1 and idx1 + 1 held internal nodes with the children g1
\* and g2.
InternalMergeHolds(a, idx1, g1, g2, r) ==
    /\ ~r.panic
    /\ r.merged <=> Len(g1) + Len(g2) < MAX_CHILDREN
    /\ r.merged =>
          /\ r.a.len = a.len - 1
          /\ Grandchildren(r.h, r.a.nodes[idx1 + 1]) = g1 \o g2
    /\ ~r.merged =>
          /\ r.a.len = a.len
          /\ Grandchildren(r.h, r.a.nodes[idx1 + 1])
               \o Grandchildren(r.h, r.a.nodes[idx1 + 2]) = g1 \o g2
          /\ Len(r.h[r.a.nodes[idx1 + 1]].node.children) = (Len(g1) + Len(g2) + 1) \div 2
          /\ Len(r.h[r.a.nodes[idx1 + 2]].node.children) = (Len(g1) + Len(g2)) \div 2
          /\ \A n \in {r.a.nodes[idx1 + 1], r.a.nodes[idx1 + 2]} :
                /\ Len(r.h[n].node.children) >= MIN_CHILDREN
                /\ Len(r.h[n].node.children) <= MAX_CHILDREN
                /\ Len(r.h[n].node.info) = Len(r.h[n].node.children)

\* Whether slots idx and idx + 1 of array a hold internal nodes.
TwoInternals(h, a, idx) ==
    /\ idx + 1 < a.len
    /\ h[a.nodes[idx + 1]].node.kind = "Internal"
    /\ h[a.nodes[idx + 2]].node.kind = "Internal"

\* C24: merge_distribute(i, i + 1) on two internal children keeps the
\* left-to-right order of all grandchildren with their info: with fewer than
\* MAX_CHILDREN of them all go to i and the call returns true (its loop
\* ends); otherwise children are moved until i has ceil((n_i+n_j)/2) and j
\* floor((n_i+n_j)/2), each between MIN_CHILDREN and MAX_CHILDREN, and the
\* call returns false (both while-loops end).
C24_InternalMerge ==
    status = "ok" =>
        \A k \in DOMAIN arrays : \A idx1 \in 0..(arrays[k].len - 2) :
            TwoInternals(heap, arrays[k], idx1) =>
                InternalMergeHolds(arrays[k], idx1,
                    Grandchildren(heap, arrays[k].nodes[idx1 + 1]),
                    Grandchildren(heap, arrays[k].nodes[idx1 + 2]),
                    ca_merge_distribute(heap, arrays[k], idx1, idx1 + 1))

\* merge_distribute has moved children from a node of 16 to a node of 1, or
\* the other way: 9 and 8 are left.
C24_Witness ==
    /\ status = "ok"
    /\ last.op = "merge_distribute"
    /\ "distributed" \in last.br
    /\ \E k \in DOMAIN arrays : \E idx \in 0..(arrays[k].len - 2) :
          /\ TwoInternals(heap, arrays[k], idx)
          /\ Len(heap[arrays[k].nodes[idx + 1]].node.children) = MIN_CHILDREN + 1
          /\ Len(heap[arrays[k].nodes[idx + 2]].node.children) = MIN_CHILDREN

\* The byte offsets at which the leaf texts ts end, acc bytes lying before
\* the first of them.
RECURSIVE LeafByteEnds(_, _)
LeafByteEnds(ts, acc) ==
    IF Len(ts) = 0 THEN {}
    ELSE {acc + Len(ts[1])} \cup LeafByteEnds(Tail(ts), acc + Len(ts[1]))

\* The byte positions fix_grapheme_seam accepts on the tree below cell id:
\* 0, the byte count, and the boundaries between adjacent leaves.
LeafBoundaries(h, id) == {0} \cup LeafByteEnds(LeafTexts(h, id), 0)

\* Rope::insert up to the repair: r is the result of Node::insert on the
\* root cell id, the root is wrapped around a residual.
Wrapped(id, r, w) == [h |-> w.h, id |-> w.id, seam |-> r.seam, panic |-> r.panic]

InsertWrapped(id, r) == Wrapped(id, r, RootWrap(r.h, id, r.residual))

InsertUnique(mm, char_pos, text) ==
    InsertWrapped(mm.id, NodeInsert(mm.h, mm.id, char_pos, text))

RopeInsert(h, id, char_pos, text) == InsertUnique(make_mut(h, id), char_pos, text)

\* The repair that ends Rope::insert, on the tree w.
RepairUnique(mm, byte_pos) == fix_grapheme_seam(mm.h, mm.id, byte_pos)

RopeRepair(w) == RepairUnique(make_mut(w.h, w.id), w.seam)

\* The seam of the insertion that gave w is a leaf boundary of the tree
\* after it, and the repair does not panic.
SeamLegal(w) ==
    /\ ~w.panic
    /\ w.seam # None =>
          /\ w.seam \in LeafBoundaries(w.h, w.id)
          /\ ~RopeRepair(w).panic

\* The texts inserted: one scalar, and a text that splits the leaf it goes
\* into.
ProbeTexts == {<<"r">>, Bulk}

\* C25: for every insert on a summary-consistent tree, the seam it returns,
\* in root coordinates and on the tree after the residual is inserted and
\* the root wrapped, is 0, the byte count or the boundary between two
\* adjacent leaves; the fix_grapheme_seam call that follows does not reach
\* the panic "not on a leaf boundary", unwraps no None and finds both
\* neighbours in its sibling branch.
C25_SeamLegal ==
    (pc = "idle" /\ status = "ok" /\ verify_integrity(heap, root)) =>
        \A char_pos \in CharProbes(LeafTexts(heap, root), len_chars) :
            \A text \in ProbeTexts :
                SeamLegal(RopeInsert(heap, root, char_pos, text))

\* An insertion between two leaves of a tree of depth 2 has reported a seam
\* and the repair has run on the two siblings.
C25_Witness ==
    /\ pc = "idle"
    /\ status = "ok"
    /\ last.op = "seam"
    /\ "siblings" \in last.br
    /\ Depths(heap, root) = {2}

RECURSIVE Flatten(_)
Flatten(seqs) == IF Len(seqs) = 0 THEN <<>> ELSE seqs[1] \o Flatten(Tail(seqs))

\* Every handle there is: the slots below len of the arrays, the items held
\* by the caller, and the children of the nodes.
AllHandles ==
    Flatten([k \in DOMAIN arrays |-> ca_nodes(arrays[k])])
        \o [k \in DOMAIN held |-> held[k].node]
        \o Flatten([n \in DOMAIN heap |-> heap[n].node.children])

\* hs are the handles there are: each refers to a live node, every count is
\* the number of handles to the node, and the nodes without a handle are the
\* released ones.
AccountingHolds(hs) ==
    /\ \A k \in DOMAIN hs :
          /\ hs[k] \in DOMAIN heap
          /\ heap[hs[k]].node # NoNode
    /\ \A id \in DOMAIN heap :
          /\ heap[id].rc = Cardinality({k \in DOMAIN hs : hs[k] = id})
          /\ heap[id].rc = 0 <=> heap[id].node = NoNode

\* c is the clone of array a: the same handles in its slots, no node made or
\* changed.
CloneShares(a, c) ==
    /\ c.a.len = a.len
    /\ ca_items(c.a) = ca_items(a)
    /\ [n \in DOMAIN c.h |-> c.h[n].node] = [n \in DOMAIN heap |-> heap[n].node]

\* C26: after any sequence of push, pop, insert, remove, split_off,
\* push_split, insert_split, merge_distribute, clone and drop, every slot
\* below len of a live array holds a handle to a live node, the reference
\* count of each node is the number of live slots and outside handles that
\* refer to it, a node is released exactly when its last handle is dropped,
\* and a clone has the handles of the original in its slots.
C26_HandleAccounting ==
    status = "ok" =>
        /\ AccountingHolds(AllHandles)
        /\ \A k \in DOMAIN arrays : CloneShares(arrays[k], ca_clone(heap, arrays[k]))

\* Two arrays share nodes after a clone, and a node was released with its
\* last handle.
C26_Witness ==
    /\ status = "ok"
    /\ last.op \in {"drop", "handle_drop", "merge_distribute"}
    /\ Len(arrays) >= 2
    /\ \E id \in DOMAIN heap : heap[id].rc = 0
    /\ \E id \in DOMAIN heap : heap[id].rc >= 2

====
